---------------------------- MODULE Spec2Model ----------------------------
(***************************************************************************)
(* A model of the LinkedIn-to-Airtable extension.                          *)
(*                                                                         *)
(*  - the page-side extractor (src/content.js, and its rate-limited        *)
(*    variant src/unnamed/part_000 = src/tag-storage.js): the single-      *)
(*    flight extraction run, the readiness poll, the retry timer and the   *)
(*    pushes to the side panel; its time is counted in ticks of 500 ms    *)
(*    (the poll interval), so every delay of the source is a whole number  *)
(*    of ticks;                                                            *)
(*  - the background service (src/background.js): its pure methods         *)
(*    (mapping, sanitising, type transformation, validation) on            *)
(*    JavaScript values, and the schema cache of fetchTableSchema with     *)
(*    the calls that use it (fetchAvailableFields, saveToAirtable); its    *)
(*    time is counted in ticks of 150 s, half the cache lifetime.          *)
(***************************************************************************)
EXTENDS Integers, Sequences, FiniteSets, TLC

(***************************************************************************)
(* Bounds of the model (not program constants).                            *)
(***************************************************************************)
\* pending performInitialExtraction timers (navigations are refused beyond it)
MaxTimers == 1
\* longest string, in atoms, given to a pure method
MaxLen == 3
\* asynchronous calls of the background service in flight together
MaxCalls == 2
\* the selectors of a selector list of the extractor
MaxLocators == 2
\* the words of a candidate company name
MaxWords == 3
\* the runs of the steps of saveToAirtable on the same objects
MaxRuns == 2
\* the submit events whose saveContact calls are not yet over
MaxSubmits == 3

(***************************************************************************)
(* Program constants, in ticks of 500 ms.                                  *)
(***************************************************************************)
\* content.js:161  const maxAttempts = 20
MaxAttemptsContent == 20
\* part_000:149    const maxAttempts = 10
MaxAttemptsLimited == 10
\* content.js:179  setTimeout(resolve, 500)
PollInterval == 1
\* content.js:25   setTimeout(() => this.performInitialExtraction(), 1000)
InitialDelay == 2
\* content.js:912  setTimeout(() => extractor.performInitialExtraction(), 1500)
NavigationDelay == 3
\* content.js:88   setTimeout(..., 3000)
RetryDelay == 6
\* part_000:35     new RateLimiter(3, 5000)
MaxRequests == 3
WindowTicks == 10
\* background.js:767  const cacheTimeout = 5 * 60 * 1000, in ticks of 150 s
TTL == 2

VARIABLES
  \* ---- extractor (content script) ----
  variant,       \* "content" (src/content.js) or "limited" (part_000, tag-storage.js)
  href,          \* window.location.href
  dom,           \* the document: selector class -> node state
  isExtracting,  \* this.isExtracting
  runs,          \* the runs of extractProfileData suspended in their wait, each
                 \* [attempts, wait, who]: waitForProfileContent's counter,
                 \* ticks left of its pending 500 ms wait, and the caller
                 \* awaiting it ("initial", "retry": performInitialExtraction
                 \* fired by a first or by a retry timer; "message")
  profileData,   \* this.profileData
  timers,        \* pending setTimeout(performInitialExtraction): seq of
                 \* [d, kind], ticks left and the setTimeout that armed
                 \* it: "initial", "navigation", "retry" or "deferred"
  requests,      \* RateLimiter.requests, as ages in ticks (oldest first)
  sent,          \* chrome.runtime.sendMessage calls of the latest handler step
  response,      \* the latest sendResponse payload
  \* ---- background service (src/background.js) ----
  pure,          \* a call of one of the service's pure methods: its name,
                 \* its arguments and, once it has run, its result
  cachedSchema,  \* this.cachedSchema: absent or [configKey, fieldTypes, age]
  storage,       \* chrome.storage.local: identity -> absent or [fieldTypes, age]
  calls,         \* the asynchronous calls of the service, each at its await
  log,           \* the schema lookups started or failed in the latest step
  posted,        \* the create request issued in the latest step, if any
  lastOK,        \* identity -> time since its latest successful fetch, while
                 \* less than TTL
  admitted,      \* the calls of RateLimiter.canMakeRequest: the ages in ticks
                 \* of those answered true, while inside the window, and the
                 \* latest call with the list it found and the list it left
  handling,      \* the handleMessage call in flight: its request, the await
                 \* it stands at, the network requests it has issued and,
                 \* once it has answered, its sendResponse payload
  \* ---- side panel (src/sidepanel.js) ----
  panel          \* the side panel: this.isLoading, the airtableConfig of
                 \* chrome.storage.sync, the calls of saveContact at their
                 \* awaits and the latest showAlert

varsX == <<variant, href, dom, isExtracting, runs, profileData, timers,
           requests, sent, response>>

varsS == <<cachedSchema, storage, calls, log, posted, lastOK>>

varsB == <<pure, handling, admitted, panel, varsS>>

vars == <<varsX, varsB>>

\* no method of the background service is being called
NoCall == [op |-> "none"]
\* the table identities `${baseId}:${tableId}` of the configurations in use
Identities == {"baseA:tblA", "baseB:tblB"}
NoEntry == [present |-> FALSE]
NoPost == [sent |-> FALSE]
Never == [has |-> FALSE]
Idle == [pc |-> "idle"]
\* no message is being handled
NoMessage == [pc |-> "none"]
\* canMakeRequest has not been called
NotAsked == [ages |-> <<>>, last |-> [called |-> FALSE]]
\* no side panel is open
PanelClosed == [open |-> FALSE]
ServiceIdle ==
  /\ handling = NoMessage
  /\ admitted = NotAsked
  /\ panel = PanelClosed
  /\ cachedSchema = NoEntry
  /\ calls = [c \in 1..MaxCalls |-> Idle]
  /\ log = <<>>
  /\ posted = NoPost
  /\ lastOK = [k \in Identities |-> Never]
BackgroundAbsent ==
  /\ pure = NoCall
  /\ ServiceIdle
  /\ storage = [k \in Identities |-> NoEntry]

(***************************************************************************)
(* The document.  Three classes of selectors stand for the selector lists  *)
(* of the source: "shared" is a selector of both the readiness list and    *)
(* the name list, "waitOnly" one that only waitForProfileContent tries     *)
(* (content.js:171 'h1'), "nameOnly" one that only extractFullName tries   *)
(* (content.js:215 'main h1:first-of-type').  A node is absent, present    *)
(* with blank text, or present with a name as text.                        *)
(***************************************************************************)
Selectors == {"shared", "waitOnly", "nameOnly"}
NodeStates == {"absent", "blank", "text"}
Doc(a, b, c) == [shared |-> a, waitOnly |-> b, nameOnly |-> c]
\* the documents the page moves between: nothing rendered yet; the heading
\* rendered without its text (it shadows every later selector); the heading
\* with the name; a name only the readiness list finds; a name only the
\* name list finds
Documents ==
  { Doc("absent", "absent", "absent"), Doc("blank", "text", "text"),
    Doc("text", "absent", "absent"), Doc("absent", "text", "absent"),
    Doc("absent", "absent", "text") }
Urls == {"linkedin.com/in/a", "linkedin.com/feed"}
NoElement == "null"

\* content.js:96-98
isLinkedInProfilePage(url) == url = "linkedin.com/in/a"

\* content.js:861-869: the first selector whose node exists, validated or not
RECURSIVE findElement(_, _)
findElement(d, selectors) ==
  IF selectors = <<>> THEN NoElement
  ELSE IF d[Head(selectors)] # "absent" THEN Head(selectors)
       ELSE findElement(d, Tail(selectors))

\* element.textContent after cleanText / trim: blank text cleans to ''
cleanText(d, el) == IF el # NoElement /\ d[el] = "text" THEN "Jane Doe" ELSE ""

\* content.js:165-172 ; part_000:152-156
WaitSelectors(v) ==
  IF v = "content" THEN <<"shared", "waitOnly">> ELSE <<"shared">>

\* content.js:192-217 ; part_000:173-179
NameSelectors(v) == <<"shared", "nameOnly">>

\* content.js:174  nameElement && nameElement.textContent.trim()
ProfileContentReady(v, d) == cleanText(d, findElement(d, WaitSelectors(v))) # ""

\* content.js:189-228
extractFullName(v, d) == cleanText(d, findElement(d, NameSelectors(v)))

maxAttempts(v) == IF v = "content" THEN MaxAttemptsContent ELSE MaxAttemptsLimited

\* this.profileData = {} (content.js:8) has no fullName: set = FALSE
EmptyObject == [set |-> FALSE, fullName |-> ""]
Record(name) == [set |-> TRUE, fullName |-> name]

\* !this.profileData.fullName
NoFullName(pd) == pd.fullName = ""

DataExtracted(pd) == [action |-> "profileDataExtracted", data |-> pd, error |-> ""]
\* content.js:145-148: the push of the catch block, with error.message
ExtractionError(msg) ==
  [action |-> "profileExtractionError", data |-> EmptyObject, error |-> msg]
\* part_000:169
NotFoundAfterWaiting == "Profile content not found after waiting"
\* any other exception thrown inside the try block
UnexpectedFault == "unexpected fault"
NoResponse == [success |-> FALSE, data |-> EmptyObject, to |-> "none"]


Min(a, b) == IF a < b THEN a ELSE b
Max(a, b) == IF a > b THEN a ELSE b

RECURSIVE SelectAges(_, _)
\* part_000:10  this.requests.filter(time => now - time < this.windowMs)
SelectAges(reqs, window) ==
  IF reqs = <<>> THEN <<>>
  ELSE IF Head(reqs) < window
       THEN <<Head(reqs)>> \o SelectAges(Tail(reqs), window)
       ELSE SelectAges(Tail(reqs), window)

\* no wait at all
getWaitTimeZero(reqs) == 0

\* part_000:20-28  RateLimiter.getWaitTime, on ages instead of timestamps
getWaitTime(reqs) ==
  IF Len(reqs) < MaxRequests THEN 0
  ELSE Max(0, WindowTicks - reqs[1])

\* pending timers are kept ordered by remaining delay (the order they fire in)
RECURSIVE InsertTimer(_, _)
InsertTimer(tm, t) ==
  IF tm = <<>> THEN <<t>>
  ELSE IF t.d < Head(tm).d \/ (t.d = Head(tm).d /\ t.kind = "retry")
       THEN <<t>> \o tm
       ELSE <<Head(tm)>> \o InsertTimer(Tail(tm), t)

RemoveAt(seq, i) == SubSeq(seq, 1, i - 1) \o SubSeq(seq, i + 1, Len(seq))

Timer(d, kind) == [d |-> d, kind |-> kind]

\* the callers of extractProfileData that are performInitialExtraction
Performers == {"initial", "retry"}

(***************************************************************************)
(* The caller's code after `await this.extractProfileData()`.              *)
(***************************************************************************)
\* content.js:84-89: re-arm the 3 s retry while the stored fullName is empty
\* (part_000:89-98 has no retry)
RetryTimers(v, who, pd, tm) ==
  IF who \in Performers /\ v = "content" /\ NoFullName(pd)
  THEN InsertTimer(tm, Timer(RetryDelay, "retry"))
  ELSE tm

\* content.js:72-81 ; part_000:91-98: performInitialExtraction pushes
\* this.profileData whatever the run did
CallerPushes(who, pd) ==
  IF who \in Performers THEN <<DataExtracted(pd)>> ELSE <<>>

\* content.js:47: handleMessage answers the extractProfile request
CallerResponse(who, pd) ==
  IF who = "message"
  THEN [success |-> TRUE, data |-> pd, to |-> "extractProfile"]
  ELSE NoResponse


Return(who, pd, msgs, tm) ==
  /\ profileData' = pd
  /\ sent' = msgs \o CallerPushes(who, pd)
  /\ timers' = RetryTimers(variant, who, pd, tm)
  /\ response' = CallerResponse(who, pd)

(***************************************************************************)
(* extractProfileData, content.js:103-155 (part_000:105-146).              *)
(***************************************************************************)
\* content.js:117-127: the Record of a run whose wait returned
ExtractedRecord(v, d) == Record(extractFullName(v, d))

\* the run ends without `finally`: the flag is cleared at the end of the try
\* block only, so a fault leaves it set
EndRunNoFinally(rest, who, err, tm) ==
  /\ runs' = rest
  /\ IF err # ""
     THEN /\ isExtracting' = isExtracting
          /\ Return(who, profileData, <<ExtractionError(err)>>, tm)
     ELSE /\ isExtracting' = FALSE
          /\ Return(who, ExtractedRecord(variant, dom),
                    <<DataExtracted(ExtractedRecord(variant, dom))>>, tm)

\* content.js:117-154: the wait is over (err = "": it returned; otherwise the
\* message of what was thrown in the try block); the Record is stored and
\* pushed, or the error is pushed; finally the flag is cleared; then the
\* caller awaiting the run continues
EndRun(rest, who, err, tm) ==
  /\ runs' = rest
  /\ isExtracting' = FALSE
  /\ IF err # ""
     THEN Return(who, profileData, <<ExtractionError(err)>>, tm)
     ELSE Return(who, ExtractedRecord(variant, dom),
                 <<DataExtracted(ExtractedRecord(variant, dom))>>, tm)

\* no guard at all: every call starts a run
GuardedNever == FALSE

\* content.js:104  if (this.isExtracting) return;
Guarded == isExtracting

Faults == {"", UnexpectedFault}

\* a call of extractProfileData by `who`: dropped by the guard, ended within
\* the same task, or suspended in the first 500 ms wait
CallExtract(who, tm) ==
  IF Guarded
  THEN /\ Return(who, profileData, <<>>, tm)
       /\ UNCHANGED <<isExtracting, runs>>
  ELSE \E err \in Faults :
         IF err # "" \/ ProfileContentReady(variant, dom)
         THEN EndRun(runs, who, err, tm)
         ELSE /\ isExtracting' = TRUE
              /\ runs' = Append(runs, [attempts |-> 0, wait |-> PollInterval,
                                       who |-> who])
              /\ timers' = tm
              /\ sent' = <<>>
              /\ response' = NoResponse
              /\ UNCHANGED profileData

\* content.js:183 warns and returns ('attempting extraction anyway');
\* part_000:169 and tag-storage.js:336 throw
WaitExhausted(v) == IF v = "limited" THEN NotFoundAfterWaiting ELSE ""

\* content.js:164-181: a 500 ms wait of waitForProfileContent is over:
\* attempts++, then the loop tests the document again or gives up
PollFire ==
  \E i \in 1..Len(runs) :
    /\ runs[i].wait = 0
    /\ UNCHANGED <<varsB, variant, href, dom, requests>>
    /\ LET r == runs[i]
           rest == RemoveAt(runs, i)
       IN \E err \in Faults :
            IF r.attempts + 1 < maxAttempts(variant)
            THEN IF err # "" \/ ProfileContentReady(variant, dom)
                 THEN EndRun(rest, r.who, err, timers)
                 ELSE /\ runs' = [runs EXCEPT ![i].attempts = r.attempts + 1,
                                              ![i].wait = PollInterval]
                      /\ sent' = <<>>
                      /\ response' = NoResponse
                      /\ UNCHANGED <<isExtracting, profileData, timers>>
            ELSE EndRun(rest, r.who,
                        IF err # "" THEN err ELSE WaitExhausted(variant), timers)

(***************************************************************************)
(* performInitialExtraction, content.js:66-91 ; part_000:78-99.            *)
(***************************************************************************)
PerformFire ==
  \E i \in 1..Len(timers) :
    /\ timers[i].d = 0
    /\ UNCHANGED <<varsB, variant, href, dom>>
    /\ LET t == timers[i]
           tm == RemoveAt(timers, i)
           live == SelectAges(requests, WindowTicks)
       IN IF ~isLinkedInProfilePage(href)
          THEN /\ timers' = tm
               /\ sent' = <<>>
               /\ response' = NoResponse
               /\ UNCHANGED <<isExtracting, runs, profileData, requests>>
          ELSE IF variant = "limited" /\ Len(live) >= MaxRequests
          THEN \* part_000:83-87: rejected by the limiter, rescheduled
               /\ requests' = live
               /\ timers' = InsertTimer(tm, Timer(getWaitTime(live), "deferred"))
               /\ sent' = <<>>
               /\ response' = NoResponse
               /\ UNCHANGED <<isExtracting, runs, profileData>>
          ELSE /\ requests' = IF variant = "limited" THEN Append(live, 0)
                                                     ELSE requests
               /\ CallExtract(IF t.kind = "retry" THEN "retry" ELSE "initial", tm)

\* content.js:45-48: handleMessage, action 'extractProfile'
ExtractProfileRequest ==
  /\ UNCHANGED <<varsB, variant, href, dom, requests>>
  /\ CallExtract("message", timers)

\* content.js:50-52: handleMessage, action 'getProfileData'
GetProfileDataRequest ==
  /\ response' = [success |-> TRUE, data |-> profileData, to |-> "getProfileData"]
  /\ sent' = <<>>
  /\ UNCHANGED <<varsB, variant, href, dom, isExtracting, runs, profileData, timers,
                 requests>>

InitialRuns == Len(SelectSeq(runs, LAMBDA r : r.who \in Performers))

\* content.js:905-915: the SPA navigates and the MutationObserver sees a new URL
Navigate ==
  \E u \in Urls :
    /\ u # href
    /\ Len(timers) + InitialRuns < MaxTimers
    /\ href' = u
    /\ timers' = IF isLinkedInProfilePage(u)
                 THEN InsertTimer(timers, Timer(NavigationDelay, "navigation"))
                 ELSE timers
    /\ sent' = <<>>
    /\ response' = NoResponse
    /\ UNCHANGED <<varsB, variant, dom, isExtracting, runs, profileData, requests>>

\* the page renders or removes nodes
DomChange ==
  \E d \in Documents :
    /\ d # dom
    /\ dom' = d
    /\ sent' = <<>>
    /\ response' = NoResponse
    /\ UNCHANGED <<varsB, variant, href, isExtracting, runs, profileData, timers,
                   requests>>

\* 500 ms pass; a timer that is due fires before time moves on
Tick ==
  /\ \A i \in 1..Len(timers) : timers[i].d > 0
  /\ \A i \in 1..Len(runs) : runs[i].wait > 0
  /\ timers' = [i \in 1..Len(timers) |-> Timer(timers[i].d - 1, timers[i].kind)]
  /\ runs' = [i \in 1..Len(runs) |-> [runs[i] EXCEPT !.wait = @ - 1]]
  /\ requests' = [i \in 1..Len(requests) |-> Min(requests[i] + 1, WindowTicks)]
  /\ sent' = <<>>
  /\ response' = NoResponse
  /\ UNCHANGED <<varsB, variant, href, dom, isExtracting, profileData>>

\* content.js:7-27 (part_000:32-49): the constructor; init() arms the first
\* timer
InitVariant(v) ==
  /\ variant = v
  /\ href \in Urls
  /\ dom \in Documents
  /\ isExtracting = FALSE
  /\ runs = <<>>
  /\ profileData = EmptyObject
  /\ timers = <<Timer(InitialDelay, "initial")>>
  /\ requests = <<>>
  /\ sent = <<>>
  /\ response = NoResponse
  /\ BackgroundAbsent

InitExtractor == InitVariant("content")

InitLimited == InitVariant("limited")

NextExtractor ==
  \/ PerformFire
  \/ PollFire
  \/ ExtractProfileRequest
  \/ GetProfileDataRequest
  \/ Navigate
  \/ DomChange
  \/ Tick

\* src/content.js
SpecExtractor == InitExtractor /\ [][NextExtractor]_vars

\* src/unnamed/part_000 and src/tag-storage.js
SpecLimited == InitLimited /\ [][NextExtractor]_vars

\* timers fire when due and time passes
FairExtractor ==
  SpecExtractor /\ WF_vars(Tick) /\ WF_vars(PollFire) /\ WF_vars(PerformFire)

(***************************************************************************)
(* JavaScript values of the background service (src/background.js).        *)
(* A string is a sequence of lexical atoms: "http://" and "https://" are   *)
(* the two URL schemes, "http" those four letters followed by something    *)
(* else, "a" any other run of letters, "1" a digit, "," " " and "'" the    *)
(* comma, a blank and a quote character.                                   *)
(***************************************************************************)
Atoms == {"a", "1", "http", "http://", "https://", ",", " ", "'"}

Str(s) == [t |-> "str", s |-> s]
Arr(a) == [t |-> "arr", a |-> a]
Num(n) == [t |-> "num", n |-> n]
Bool(b) == [t |-> "bool", b |-> b]
\* { url: u } ; an object without url is Obj(Undefined)
Obj(u) == [t |-> "obj", url |-> u]
\* null and undefined (the code tests both together or by falsiness)
Null == [t |-> "null"]
NaN == [t |-> "nan"]

IsStr(v) == v.t = "str"
IsArr(v) == v.t = "arr"

\* JavaScript falsiness: !value
Falsy(v) ==
  \/ v.t \in {"null", "nan"}
  \/ (v.t = "str" /\ v.s = <<>>)
  \/ (v.t = "num" /\ v.n = 0)
  \/ (v.t = "bool" /\ ~v.b)

\* String.prototype.startsWith, for the three prefixes the code tests
StartsWithHttpScheme(s) == s # <<>> /\ s[1] = "http://"
StartsWithHttpsScheme(s) == s # <<>> /\ s[1] = "https://"
StartsWithHttp(s) == s # <<>> /\ s[1] \in {"http", "http://", "https://"}

RECURSIVE TrimLeft(_, _)
TrimLeft(s, chars) ==
  IF s # <<>> /\ Head(s) \in chars THEN TrimLeft(Tail(s), chars) ELSE s

RECURSIVE TrimRight(_, _)
TrimRight(s, chars) ==
  IF s # <<>> /\ s[Len(s)] \in chars
  THEN TrimRight(SubSeq(s, 1, Len(s) - 1), chars) ELSE s

\* String.prototype.trim
Trim(s) == TrimRight(TrimLeft(s, {" "}), {" "})

\* .replace(/^["']+|["']+$/g, '')
StripQuotes(s) == TrimRight(TrimLeft(s, {"'"}), {"'"})

\* String.prototype.includes(',')
IncludesComma(s) == \E i \in 1..Len(s) : s[i] = ","

RECURSIVE Split(_)
\* String.prototype.split(',')
Split(s) ==
  IF ~IncludesComma(s) THEN <<s>>
  ELSE LET i == CHOOSE k \in 1..Len(s) :
                  s[k] = "," /\ \A j \in 1..(k - 1) : s[j] # ","
       IN <<SubSeq(s, 1, i - 1)>> \o Split(SubSeq(s, i + 1, Len(s)))

\* .split(',').map(v => v.trim()); Array.prototype.filter is SelectSeq
TrimmedItems(s) == [i \in 1..Len(Split(s)) |-> Str(Trim(Split(s)[i]))]

RECURSIVE Join(_)
\* Array.prototype.join(','), on a sequence of atom sequences
Join(parts) ==
  IF parts = <<>> THEN <<>>
  ELSE IF Len(parts) = 1 THEN parts[1]
       ELSE parts[1] \o <<",">> \o Join(Tail(parts))

RECURSIVE StringOf(_)
\* String(value)
StringOf(v) ==
  CASE v.t = "str" -> v.s
    [] v.t = "num" -> IF v.n = 0 THEN <<"0">> ELSE [i \in 1..v.n |-> "1"]
    [] v.t = "bool" -> IF v.b THEN <<"true">> ELSE <<"false">>
    [] v.t = "null" -> <<"null">>
    [] v.t = "nan" -> <<"NaN">>
    [] v.t = "arr" -> Join([i \in 1..Len(v.a) |->
                             IF v.a[i].t = "null" THEN <<>> ELSE StringOf(v.a[i])])
    [] OTHER -> <<"[object Object]">>

RECURSIVE LeadingOnes(_)
LeadingOnes(s) == IF s # <<>> /\ Head(s) = "1" THEN 1 + LeadingOnes(Tail(s)) ELSE 0

\* parseFloat(value): the digits after leading blanks (a number n is written
\* as n digits "1", 0 as "0"), NaN when there are none
ParseFloat(v) ==
  LET s == TrimLeft(StringOf(v), {" "})
  IN IF v.t = "num" THEN v
     ELSE IF s # <<>> /\ Head(s) = "0" THEN Num(0)
     ELSE IF LeadingOnes(s) > 0 THEN Num(LeadingOnes(s))
     ELSE NaN

(***************************************************************************)
(* transformByFieldType, background.js:601-728.                            *)
(***************************************************************************)
TextTypes == {"multilineText", "singleLineText", "richText"}
NumericTypes == {"number", "currency", "percent", "rating"}
FieldTypes ==
  TextTypes \cup NumericTypes \cup
  {"multipleAttachments", "multipleRecordLinks", "multipleSelects",
   "singleSelect", "checkbox", "date", "dateTime", "url", "email",
   "phoneNumber", "formula"}

\* background.js:638-643: a string that is not empty and not a URL
IsRecordId(v) ==
  /\ IsStr(v)
  /\ Len(v.s) > 0
  /\ ~StartsWithHttpScheme(v.s)
  /\ ~StartsWithHttpsScheme(v.s)

NonEmptyStr(v) == Len(v.s) > 0

\* background.js:625-665
TransformLinkedRecord(value) ==
  IF Falsy(value) \/ (IsArr(value) /\ Len(value.a) = 0) THEN Null
  ELSE IF IsArr(value)
  THEN LET validIds == SelectSeq(value.a, IsRecordId)
       IN IF Len(validIds) = 0 THEN Null ELSE Arr(validIds)
  ELSE IF IsStr(value) /\ Len(value.s) > 0
  THEN IF StartsWithHttpScheme(value.s) \/ StartsWithHttpsScheme(value.s)
       THEN Null
       ELSE IF IncludesComma(value.s)
       THEN Arr(SelectSeq(TrimmedItems(value.s), NonEmptyStr))
       ELSE Arr(<<value>>)
  ELSE Null

\* background.js:605-623
AttachmentOf(v) ==
  IF IsStr(v) /\ StartsWithHttp(v.s) THEN Obj(v)
  ELSE IF v.t = "obj" /\ ~Falsy(v.url) THEN v
  ELSE Null

NotNull(v) == v # Null

TransformAttachment(value) ==
  IF IsStr(value) /\ StartsWithHttp(value.s) THEN Arr(<<Obj(value)>>)
  ELSE IF IsArr(value) THEN Arr(SelectSeq([i \in 1..Len(value.a) |-> AttachmentOf(value.a[i])], NotNull))
  ELSE Arr(<<>>)

\* background.js:667-675
TransformMultiSelect(value) ==
  IF IsStr(value)
  THEN Arr(SelectSeq(TrimmedItems(value.s), NonEmptyStr))
  ELSE IF IsArr(value)
  THEN Arr(SelectSeq([i \in 1..Len(value.a) |-> Str(StringOf(value.a[i]))],
                     NonEmptyStr))
  ELSE Arr(<<Str(StringOf(value))>>)

\* background.js:677-686
TransformSingleSelect(value) ==
  LET single == IF IsArr(value)
                THEN IF Len(value.a) > 0 /\ ~Falsy(value.a[1])
                     THEN StringOf(value.a[1]) ELSE <<>>
                ELSE StringOf(value)
  IN Str(Trim(StripQuotes(single)))

\* background.js:688-692
TransformText(value) == Str(Trim(StripQuotes(StringOf(value))))

\* background.js:694-700
TransformNumber(value) ==
  IF ParseFloat(value) = NaN THEN Null ELSE ParseFloat(value)

\* background.js:702-708
TransformCheckbox(value) ==
  IF value.t = "bool" THEN value
  ELSE IF IsStr(value) THEN Bool(value.s = <<"true">> \/ value.s = <<"1">>)
  ELSE Bool(~Falsy(value))

transformByFieldType(fieldName, value, fieldType) ==
  CASE fieldType = "multipleAttachments" -> TransformAttachment(value)
    [] fieldType = "multipleRecordLinks" -> TransformLinkedRecord(value)
    [] fieldType = "multipleSelects" -> TransformMultiSelect(value)
    [] fieldType = "singleSelect" -> TransformSingleSelect(value)
    [] fieldType \in TextTypes -> TransformText(value)
    [] fieldType \in NumericTypes -> TransformNumber(value)
    [] fieldType = "checkbox" -> TransformCheckbox(value)
    [] fieldType \in {"date", "dateTime", "url", "email", "phoneNumber"} ->
         Str(StringOf(value))
    [] OTHER -> value

(***************************************************************************)
(* Objects keyed by field name.  A field map is a function from the names  *)
(* it owns to values; a schema is null or a map from the names of the      *)
(* table's fields to their types.                                          *)
(***************************************************************************)
\* the names an object literal inherits from Object.prototype (one stands
\* for constructor, toString, valueOf, hasOwnProperty, ...)
PrototypeNames == {"constructor"}
FieldNames == {"Name", "LinkedIn URL", "Tag", "constructor"}
\* Object.entries order, fixed to one order of the names
FieldOrder ==
  <<"Name", "Job Title", "Company", "Location", "LinkedIn URL", "Tag",
    "constructor">>

NullSchema == [known |-> FALSE, types |-> [n \in {} |-> ""]]
Schema(types) == [known |-> TRUE, types |-> types]

InheritedFunction == "function"
Undefined == ""

\* schema[fieldName], background.js:387 and 568: an own key gives its type,
\* a name of Object.prototype gives the inherited function, any other name
\* undefined
SchemaLookup(schema, fieldName) ==
  IF fieldName \in DOMAIN schema.types THEN schema.types[fieldName]
  ELSE IF fieldName \in PrototypeNames THEN InheritedFunction
  ELSE Undefined

\* value === null || value === undefined || value === ''
IsEmptyValue(v) == v = Null \/ v = Str(<<>>)

Entries(fields) == SelectSeq(FieldOrder, LAMBDA n : n \in DOMAIN fields)

AllStrings(a) == \A i \in 1..Len(a) : IsStr(a[i])

\* validateFieldValue, background.js:440-551; "" stands for isValid
Valid == ""
validateFieldValue(fieldName, value, fieldType) ==
  CASE fieldType = "multipleRecordLinks" ->
         IF ~IsArr(value) THEN "Expected array of record IDs for linked record field"
         ELSE IF ~AllStrings(value.a) THEN "All record IDs must be strings"
         ELSE Valid
    [] fieldType = "multipleAttachments" ->
         IF ~IsArr(value) THEN "Expected array of attachment objects"
         ELSE IF ~\A i \in 1..Len(value.a) :
                     value.a[i].t = "obj" /\ IsStr(value.a[i].url)
         THEN "All attachments must be objects with url property"
         ELSE Valid
    [] fieldType = "multipleSelects" ->
         IF ~IsArr(value) THEN "Expected array of strings for multi-select" ELSE Valid
    [] fieldType = "singleSelect" ->
         IF ~IsStr(value) THEN "Expected string for single select" ELSE Valid
    [] fieldType \in NumericTypes ->
         IF value.t # "num" THEN "Expected number" ELSE Valid
    [] fieldType = "checkbox" ->
         IF value.t # "bool" THEN "Expected boolean" ELSE Valid
    [] fieldType \in TextTypes \cup {"email", "url", "phoneNumber", "date", "dateTime"} ->
         IF ~IsStr(value) THEN "Expected string" ELSE Valid
    [] OTHER -> Valid

DoesNotExist == "Field does not exist in Airtable table"
NotRecordIds == "Linked record field requires array of record IDs, not URLs or text"
Skipped == "skipped"

\* background.js:403-404
isValidLinkedRecord(value) ==
  /\ IsArr(value)
  /\ Len(value.a) > 0
  /\ \A i \in 1..Len(value.a) : IsStr(value.a[i]) /\ ~StartsWithHttp(value.a[i].s)

\* background.js:390: !fieldType
FieldMissing(fieldType) == fieldType = Undefined

\* one iteration of the loop of background.js:374-432
FieldVerdict(fieldName, value, schema) ==
  IF IsEmptyValue(value) THEN Skipped
  ELSE IF ~schema.known THEN Valid
  ELSE LET fieldType == SchemaLookup(schema, fieldName)
       IN IF FieldMissing(fieldType) THEN DoesNotExist
          ELSE IF fieldType = "multipleRecordLinks" /\ ~isValidLinkedRecord(value)
          THEN NotRecordIds
          ELSE validateFieldValue(fieldName, value, fieldType)

\* validateAndFilterFields, background.js:370-435
validateAndFilterFields(fields, schema) ==
  LET verdict(n) == FieldVerdict(n, fields[n], schema)
      valid == {n \in DOMAIN fields : verdict(n) = Valid}
      excluded(n) == verdict(n) \notin {Valid, Skipped}
  IN [validFields |-> [n \in valid |-> fields[n]],
      excludedFields |->
        LET names == SelectSeq(Entries(fields), excluded)
        IN [i \in 1..Len(names) |-> [field |-> names[i], reason |-> verdict(names[i])]]]

\* lowerName.includes('tag') || lowerName.includes('categor')
TagLike(fieldName) == fieldName = "Tag"

\* transformByHeuristic, background.js:733-761 (no field name of the model
\* contains picture, photo or image: that branch returns the value as is)
transformByHeuristic(fieldName, value) ==
  IF TagLike(fieldName) /\ IsStr(value)
  THEN LET items == SelectSeq(TrimmedItems(value.s), NonEmptyStr)
       IN IF Len(items) > 1 THEN Arr(items)
          ELSE IF Len(items) = 1 THEN items[1]
          ELSE value
  ELSE value

\* the loop body of transformFieldsForAirtable, background.js:568-580
TransformedValue(fieldName, value, schema) ==
  LET fieldType == IF schema.known THEN SchemaLookup(schema, fieldName) ELSE Undefined
  IN IF fieldType # Undefined
     THEN transformByFieldType(fieldName, value, fieldType)
     ELSE transformByHeuristic(fieldName, value)

\* transformFieldsForAirtable after its schema lookup, background.js:560-595
TransformFields(fields, schema) ==
  LET kept == {n \in DOMAIN fields :
                 /\ ~IsEmptyValue(fields[n])
                 /\ TransformedValue(n, fields[n], schema) # Null}
  IN [n \in kept |-> TransformedValue(n, fields[n], schema)]

(***************************************************************************)
(* mapContactDataToAirtable and sanitizeValue, background.js:285-365.      *)
(***************************************************************************)
RECURSIVE CollapseBlanks(_)
\* .replace(/\s+/g, ' ')
CollapseBlanks(s) ==
  IF Len(s) < 2 THEN s
  ELSE IF s[1] = " " /\ s[2] = " " THEN CollapseBlanks(Tail(s))
       ELSE <<s[1]>> \o CollapseBlanks(Tail(s))

\* .replace(/^["']|["']$/g, ''): one quote at each end
StripOneQuote(s) ==
  LET a == IF s # <<>> /\ s[1] = "'" THEN Tail(s) ELSE s
  IN IF a # <<>> /\ a[Len(a)] = "'" THEN SubSeq(a, 1, Len(a) - 1) ELSE a

RECURSIVE sanitizeValue(_)
sanitizeValue(value) ==
  CASE value.t = "str" -> Str(CollapseBlanks(StripOneQuote(Trim(value.s))))
    [] value.t = "arr" -> Arr([i \in 1..Len(value.a) |-> sanitizeValue(value.a[i])])
    [] value.t = "obj" -> Obj(sanitizeValue(value.url))
    [] OTHER -> value

\* the keys of a contact record that the model follows, in the order of
\* Object.keys(mappings)
DataKeyOrder ==
  <<"fullName", "jobTitle", "company", "location", "profileUrl", "tags">>
\* background.js:286-299
defaultMappings ==
  [k \in {"fullName", "jobTitle", "company", "location", "profileUrl", "tags"} |->
     CASE k = "fullName" -> "Name"
       [] k = "jobTitle" -> "Job Title"
       [] k = "company" -> "Company"
       [] k = "location" -> "Location"
       [] k = "profileUrl" -> "LinkedIn URL"
       [] k = "tags" -> "Tag"]

mapContactDataToAirtable(contactData, fieldMappings) ==
  LET mappings == [k \in DOMAIN defaultMappings |->
                     IF k \in DOMAIN fieldMappings THEN fieldMappings[k]
                     ELSE defaultMappings[k]]
      included == {i \in 1..Len(DataKeyOrder) :
                     /\ mappings[DataKeyOrder[i]] # ""
                     /\ DataKeyOrder[i] \in DOMAIN contactData
                     /\ ~Falsy(contactData[DataKeyOrder[i]])}
      \* a later key writes over an earlier one mapped to the same field
      last(f) == CHOOSE i \in included :
                   /\ mappings[DataKeyOrder[i]] = f
                   /\ \A j \in included : mappings[DataKeyOrder[j]] = f => j <= i
  IN [f \in {mappings[DataKeyOrder[i]] : i \in included} |->
        sanitizeValue(contactData[DataKeyOrder[last(f)]])]

(***************************************************************************)
(* parseAirtableError: BackgroundService.parseAirtableError                *)
(* (background.js:899-1016) and AirtableService.parseAirtableError         *)
(* (background-production.js:264-293).  A text is a sequence of words; a   *)
(* word is matched whole, so includes() and the two patterns are taken     *)
(* word by word.                                                           *)
(***************************************************************************)
\* the value undefined: a property that is not there, a match that failed
Absent == [t |-> "undefined"]
Quote == "\""
MessageWords == {"a", Quote, "field", " "}
\* the words the class [^"'\s,] admits
NameWords == {"a", "field"}

\* String.prototype.includes
Includes(text, word) == \E i \in 1..Len(text) : text[i] = word

LeastOf(S) == CHOOSE i \in S : \A j \in S : i <= j

\* errorMsg.match(/"([^"]+)"/)?.[1], background.js:939 and
\* background-production.js:272: the words between the first quote that has
\* a word other than a quote after it and a quote closing the run, and the
\* quote that closes the run
QuotedName(text) ==
  LET closes(i) == {j \in (i + 2)..Len(text) :
                      /\ text[j] = Quote
                      /\ \A k \in (i + 1)..(j - 1) : text[k] # Quote}
      opens == {i \in 1..Len(text) : text[i] = Quote /\ closes(i) # {}}
  IN IF opens = {} THEN Absent
     ELSE LET i == LeastOf(opens)
          IN Str(SubSeq(text, i + 1, LeastOf(closes(i)) - 1))

\* errorMsg.match(/field[s]?\s+["']?([^"'\s,]+)["']?/i)?.[1],
\* background.js:951 and 977: after the first "field" that blanks, an
\* optional quote and a name follow, the longest run of name words
FieldName(text) ==
  LET afterBlanks(i) ==
        LeastOf({k \in (i + 1)..(Len(text) + 1) :
                   k = Len(text) + 1 \/ text[k] # " "})
      nameStart(i) ==
        LET k == afterBlanks(i)
        IN IF k <= Len(text) /\ text[k] = Quote THEN k + 1 ELSE k
      nameEnd(i) ==
        LeastOf({k \in nameStart(i)..(Len(text) + 1) :
                   k = Len(text) + 1 \/ text[k] \notin NameWords})
      matches(i) ==
        /\ text[i] = "field"
        /\ afterBlanks(i) > i + 1
        /\ nameStart(i) <= Len(text)
        /\ nameEnd(i) > nameStart(i)
      starts == {i \in 1..Len(text) : matches(i)}
  IN IF starts = {} THEN Absent
     ELSE LET i == LeastOf(starts)
          IN Str(SubSeq(text, nameStart(i), nameEnd(i) - 1))

\* a message built from a template literal and the texts put into it
Text(template, args) == [template |-> template, args |-> args]
Fixed(template) == Text(template, <<>>)

InvalidToken == Fixed("Invalid API token. Please check your Airtable configuration.")
PermissionDenied == Fixed("Permission denied. Check your API token permissions.")
NotFound == Fixed("Base or table not found. Please verify your Base ID and Table ID.")
InvalidDataFormat ==
  Fixed("Invalid data format. Check your field mappings and ensure field types match.")
RateLimited == Fixed("Rate limit exceeded. Please wait a moment before trying again.")
NetworkError == Fixed("Network error. Please check your internet connection.")

\* background.js:970-973
SelectOptionsPermission(errorMsg) ==
  Text("Permission Error: Your Airtable API token doesn't have permission to create new select options. To fix this: 1. Go to https://airtable.com/create/tokens 2. Edit your token to add the schema.bases:write scope 3. Or manually add the missing value to your Single Select field in Airtable Details: ${errorMsg}",
       <<errorMsg>>)

\* value || ''
OrEmpty(v) == IF v = Absent \/ v = Str(<<>>) THEN <<>> ELSE v.s

Returned(message, unknownFields, fieldErrors) ==
  [threw |-> FALSE, message |-> message, unknownFields |-> unknownFields,
   fieldErrors |-> fieldErrors]
\* background-production.js:289-292
ReturnedProduction(message, unknownFields) ==
  [threw |-> FALSE, message |-> message, unknownFields |-> unknownFields]
\* the call ends in an exception
Thrown(name) == [threw |-> TRUE, name |-> name]

\* background.js:997-1010: the status codes, looked for in error.message
StatusMessage(error, errorMessage) ==
  IF Includes(error, "401") THEN InvalidToken
  ELSE IF Includes(error, "403") THEN PermissionDenied
  ELSE IF Includes(error, "404") THEN NotFound
  ELSE IF Includes(error, "422") THEN InvalidDataFormat
  ELSE IF Includes(error, "429") THEN RateLimited
  ELSE IF Includes(error, "network") THEN NetworkError
  ELSE errorMessage

\* background-production.js:277-287
StatusMessageProduction(error, errorMessage) ==
  IF Includes(error, "401") THEN InvalidToken
  ELSE IF Includes(error, "403") THEN PermissionDenied
  ELSE IF Includes(error, "404") THEN NotFound
  ELSE IF Includes(error, "429") THEN RateLimited
  ELSE IF Includes(error, "network") THEN NetworkError
  ELSE errorMessage

\* background.js:932-993: what the body of the response says
BodyVerdict(error, responseData) ==
  LET errorMessage == Text("${error.message}", <<error>>)
      none == [message |-> errorMessage, unknownFields |-> <<>>, fieldErrors |-> <<>>]
      airtableError == responseData.error
  IN IF responseData.shape # "object" THEN none
     ELSE IF airtableError.t = "error"
     THEN LET errorType == airtableError.type
              errorMsg == OrEmpty(airtableError.message)
          IN CASE errorType = "UNKNOWN_FIELD_NAME" ->
                    LET fieldName == QuotedName(errorMsg)
                    IN IF fieldName # Absent
                       THEN [message |-> Text("Unknown field: ${fieldName}. Please check your field mappings in the configuration section.",
                                              <<fieldName.s>>),
                             unknownFields |-> <<fieldName>>,
                             fieldErrors |-> <<[field |-> fieldName,
                                                error |-> Fixed("Field does not exist in Airtable table")]>>]
                       ELSE [none EXCEPT !.message =
                               Text("Unknown field error. ${errorMsg}", <<errorMsg>>)]
                 [] errorType = "INVALID_VALUE_FOR_COLUMN" ->
                    LET fieldName == FieldName(errorMsg)
                        typeHint ==
                          IF Includes(errorMsg, "record id")
                          THEN " The field appears to be a Linked Record type, but a URL was provided. Change the field type in Airtable to URL or Attachment."
                          ELSE IF Includes(errorMsg, "array")
                          THEN " The field expects an array format. Check the field type in Airtable."
                          ELSE ""
                    IN IF fieldName # Absent
                       THEN [message |-> Text("Invalid data type for field ${fieldName}.${typeHint} Details: ${errorMsg}",
                                              <<fieldName.s, <<typeHint>>, errorMsg>>),
                             unknownFields |-> <<>>,
                             fieldErrors |-> <<[field |-> fieldName,
                                                error |-> Text("Invalid data type for this field${typeHint}",
                                                               <<<<typeHint>>>>)]>>]
                       ELSE [none EXCEPT !.message =
                               Text("Invalid data type error. ${errorMsg}", <<errorMsg>>)]
                 [] errorType = "INVALID_MULTIPLE_CHOICE_OPTIONS" ->
                    [none EXCEPT !.message = SelectOptionsPermission(errorMsg)]
                 [] errorType \in {"INVALID_REQUEST_UNKNOWN", "INVALID_REQUEST_BODY"} ->
                    LET fieldName == FieldName(errorMsg)
                    IN [message |-> IF errorMsg # <<>>
                                    THEN Text("Invalid data format: ${errorMsg}", <<errorMsg>>)
                                    ELSE Fixed("Invalid data format: Please verify your data and field mappings"),
                        unknownFields |-> <<>>,
                        fieldErrors |-> IF fieldName # Absent
                                        THEN <<[field |-> fieldName,
                                                error |-> Text("${errorMsg}", <<errorMsg>>)]>>
                                        ELSE <<>>]
                 [] errorType = "INVALID_PERMISSIONS" ->
                    [none EXCEPT !.message =
                       Text("Permission denied: ${errorMsg}. Check your API token permissions.",
                            <<errorMsg>>)]
                 [] errorType = "NOT_FOUND" ->
                    [none EXCEPT !.message =
                       Text("Resource not found: ${errorMsg}. Please verify your Base ID and Table ID.",
                            <<errorMsg>>)]
                 [] OTHER ->
                    IF errorMsg # <<>>
                    THEN [none EXCEPT !.message = Text("${errorMsg}", <<errorMsg>>)]
                    ELSE none
     ELSE IF responseData.message # Absent /\ responseData.message.s # <<>>
     THEN [none EXCEPT !.message = Text("${responseData.message}", <<responseData.message.s>>)]
     ELSE none

\* background.js:899-1016; sentFields is only written to the console
parseAirtableError(error, responseData) ==
  LET verdict == BodyVerdict(error, responseData)
  IN Returned(StatusMessage(error, verdict.message), verdict.unknownFields,
              verdict.fieldErrors)

\* background-production.js:264-293; the result has no fieldErrors
parseAirtableErrorProduction(error, responseData) ==
  LET errorMessage == Text("${error.message}", <<error>>)
      airtableError == IF responseData.shape = "object" THEN responseData.error
                       ELSE Absent
  IN IF airtableError.t = "error" /\ airtableError.type = "UNKNOWN_FIELD_NAME"
     THEN IF airtableError.message = Absent
          THEN Thrown("TypeError")
          ELSE LET fieldName == QuotedName(airtableError.message.s)
               IN ReturnedProduction(
                    StatusMessageProduction(error,
                      Text("Unknown field: ${unknownFields[0]}. Please check your field mappings.",
                           <<IF fieldName = Absent THEN <<"undefined">> ELSE fieldName.s>>)),
                    <<fieldName>>)
     ELSE ReturnedProduction(StatusMessageProduction(error, errorMessage), <<>>)

\* the two builds of the service worker
Builds == {"background.js", "background-production.js"}
Classify(build, error, responseData) ==
  IF build = "background.js" THEN parseAirtableError(error, responseData)
  ELSE parseAirtableErrorProduction(error, responseData)

(***************************************************************************)
(* The extraction of one field from the document (content.js:189-233,      *)
(* 235-312, 381-489, 494-521, 707-726).  The document is given by what     *)
(* each selector of the field's list finds, in the order of the list: no   *)
(* node, or a node with its text.  The texts are a few samples; a          *)
(* pattern of the source is the set of the samples it matches.             *)
(***************************************************************************)
\* document.querySelector(selector) === null
AbsentNode == "null"
\* element.textContent of the nodes
NodeTexts ==
  {"  ", "Follow", "500+ connections", "2019 - Present", "Full-time",
   "Senior Software Engineer", "  Product Manager ", "Product Manager · Full-time",
   "Acme Corp", "ACME Inc.", "Austin, TX"}

\* content.js:874-882: cleanText, whitespace collapsed and trimmed
cleanTextOf(text) ==
  CASE text = "  " -> ""
    [] text = "  Product Manager " -> "Product Manager"
    [] OTHER -> text

\* !text || text.length < 2 (content.js:601, 690, 748)
TooShort(text) == text = ""
\* content.js:732-741: /connect/i and /follow/i match these
ConnectionDegreeTexts == {"500+ connections", "Follow"}
isConnectionDegreeText(text) == text \in ConnectionDegreeTexts
\* /^\d{4}\s*[-–]\s*(\d{4}|Present|Current)$/i (content.js:627, 761)
DateTexts == {"2019 - Present"}
\* /^(Message|Connect|Follow|More|Experience|Show all|See less)$/i
\* (content.js:664, 781)
UiElementTexts == {"Follow"}
\* /^(Full-time|Part-time|Contract|Freelance|Internship|Self-employed)$/i
\* (content.js:613)
EmploymentTypeTexts == {"Full-time"}
\* /^[A-Z\s&,\.]+\s+(Inc\.|LLC|Ltd\.|Corp\.|Corporation|Company)$/i
\* (content.js:794)
CompanySuffixTexts == {"ACME Inc."}
\* content.js:747-807
isValidJobTitle(text) ==
  /\ ~TooShort(text)
  /\ text \notin DateTexts
  /\ ~isConnectionDegreeText(text)
  /\ text \notin UiElementTexts
  /\ text \notin CompanySuffixTexts

(***************************************************************************)
(* isValidCompanyName (content.js:600-684).  The candidate is the text     *)
(* after cleanText, given as its words: the runs of characters between     *)
(* single blanks.  A pattern with /i is matched through the classes of     *)
(* the words it names, written in any case.                                *)
(***************************************************************************)
\* the words of the sample texts
WordsOf(text) ==
  CASE text = "" -> <<>>
    [] text = "Follow" -> <<"Follow">>
    [] text = "500+ connections" -> <<"500+", "connections">>
    [] text = "2019 - Present" -> <<"2019", "-", "Present">>
    [] text = "Full-time" -> <<"Full-time">>
    [] text = "Senior Software Engineer" -> <<"Senior", "Software", "Engineer">>
    [] text = "Product Manager" -> <<"Product", "Manager">>
    [] text = "Product Manager · Full-time" -> <<"Product", "Manager", "·", "Full-time">>
    [] text = "Acme Corp" -> <<"Acme", "Corp">>
    [] text = "ACME Inc." -> <<"ACME", "Inc.">>
    [] text = "Austin, TX" -> <<"Austin,", "TX">>
    [] text = "Jane Doe" -> <<"Jane", "Doe">>

\* words of one character
OneCharWords == {"-", "·"}
\* words that are (Full-time|Part-time|Contract|Freelance|Internship|
\* Self-employed), content.js:613
EmploymentTypeWords == {"Full-time"}
\* words that are \d{4}, and (\d{4}|Present|Current), content.js:627
YearWords == {"2019"}
UntilWords == {"2019", "Present"}
\* words that begin with (Senior|Junior|Lead|Principal|Chief|Associate),
\* content.js:641; the pattern has no word boundary after the alternative
TitlePrefixWords == {"Senior", "senior"}
\* (Head of|Director of|Manager of): the first word and the beginning of
\* the second
TitleOfWords == {"Head", "Manager"}
BeginsWithOf == {"of"}
\* words that end with each of Engineer, Developer, Designer, Analyst,
\* Consultant, Specialist (content.js:642-647)
TitleSuffixWords ==
  <<{"Engineer", "ENGINEER"}, {}, {"Designer"}, {}, {}, {}>>
\* words that are a UI element (content.js:664-666); "Show all" and
\* "See less" are texts of two words
UiElementWords == {"Follow"}
\* words in which /follow/i, /message/i or /connect/i matches
\* (content.js:736-738)
ConnectionWords == {"Follow", "connections"}

\* content.js:640-648, jobTitlePatterns: the first pattern is anchored at
\* the start of the text, the other six at its end
MatchesJobTitlePattern(p, words) ==
  /\ words # <<>>
  /\ IF p = 1
     THEN \/ words[1] \in TitlePrefixWords
          \/ Len(words) >= 2 /\ words[1] \in TitleOfWords /\ words[2] \in BeginsWithOf
     ELSE words[Len(words)] \in TitleSuffixWords[p - 1]
jobTitlePatterns == 1..7

\* content.js:651-654
jobTitleScore(words) ==
  Cardinality({p \in jobTitlePatterns : MatchesJobTitlePattern(p, words)})

\* jobTitleScore >= 1
ResemblesJobTitle(score) == score >= 1
\* content.js:656, jobTitleScore >= 2
StronglyJobTitle(score) == score >= 2

\* the line isValidCompanyName logs before it returns (content.js:602-682);
\* no text of the model is longer than 150 characters, nor a month or a
\* duration
CompanyNameVerdict(words) ==
  CASE words = <<>> \/ (Len(words) = 1 /\ words[1] \in OneCharWords) ->
         "Text too short"
    [] \/ Len(words) = 1 /\ words[1] \in EmploymentTypeWords
       \/ Len(words) = 2 /\ words[1] = "·" /\ words[2] \in EmploymentTypeWords ->
         "Looks like employment type"
    [] /\ Len(words) = 3
       /\ words[1] \in YearWords /\ words[2] = "-" /\ words[3] \in UntilWords ->
         "Looks like date/duration"
    [] StronglyJobTitle(jobTitleScore(words)) -> "Strongly resembles a job title"
    [] Len(words) = 1 /\ words[1] \in UiElementWords -> "Looks like UI element"
    [] \E i \in 1..Len(words) : words[i] \in ConnectionWords ->
         "Looks like connection degree text"
    [] OTHER -> "Text appears to be a valid company name"

\* content.js:600-684
isValidCompanyName(words) ==
  CompanyNameVerdict(words) = "Text appears to be a valid company name"

\* content.js:689-702
isValidCompanyNameRelaxed(text) ==
  /\ ~TooShort(text)
  /\ text \notin EmploymentTypeTexts \cup DateTexts \cup UiElementTexts

\* content.js:317-333: of the samples, the employment type after a middle
\* dot and the date range are cut
cleanJobTitle(jobTitle) ==
  CASE jobTitle = "Product Manager · Full-time" -> "Product Manager"
    [] jobTitle = "2019 - Present" -> ""
    [] OTHER -> jobTitle

\* content.js:338-376: of the samples, the employment type after a middle
\* dot, the date range and the dot at the end are cut
cleanCompanyName(company) ==
  CASE company = "Product Manager · Full-time" -> "Product Manager"
    [] company = "2019 - Present" -> ""
    [] company = "ACME Inc." -> "ACME Inc"
    [] OTHER -> company

\* no selector was taken
NoSelector == 0
Extracted(selector, text) == [selector |-> selector, text |-> text]

\* content.js:861-869, findElement: the first selector that finds a node
findElementIn(nodes) ==
  LET found == {i \in 1..Len(nodes) : nodes[i] # AbsentNode}
  IN IF found = {} THEN NoSelector ELSE LeastOf(found)

\* content.js:218-219 and 718-719: the text of the node findElement returns
TextOfFirstNode(nodes) ==
  LET i == findElementIn(nodes)
  IN IF i = NoSelector THEN Extracted(NoSelector, "")
     ELSE Extracted(i, cleanTextOf(nodes[i]))

\* content.js:189-233
extractName(nodes) == TextOfFirstNode(nodes)
\* content.js:707-726
extractLocation(nodes) == TextOfFirstNode(nodes)

\* content.js:283-299: the loop over the selectors, left at the first node
\* whose text is a valid job title
JobTitleSelector(nodes) ==
  LET valid == {i \in 1..Len(nodes) :
                  nodes[i] # AbsentNode /\ isValidJobTitle(cleanTextOf(nodes[i]))}
  IN IF valid = {} THEN NoSelector ELSE LeastOf(valid)

\* content.js:235-312
extractJobTitle(nodes) ==
  LET i == JobTitleSelector(nodes)
  IN IF i = NoSelector THEN Extracted(NoSelector, cleanJobTitle(""))
     ELSE Extracted(i, cleanJobTitle(cleanTextOf(nodes[i])))

\* content.js:449-468
CompanySelector(nodes) ==
  LET valid == {i \in 1..Len(nodes) :
                  nodes[i] # AbsentNode
                  /\ isValidCompanyName(WordsOf(cleanTextOf(nodes[i])))}
  IN IF valid = {} THEN NoSelector ELSE LeastOf(valid)

\* content.js:494-521: the first text element of the experience item that
\* passes the relaxed validation, the elements in emphasis left out
extractCompanyFallback(candidates) ==
  LET valid == {i \in 1..Len(candidates) :
                  isValidCompanyNameRelaxed(cleanTextOf(candidates[i]))}
  IN IF valid = {} THEN "" ELSE cleanTextOf(candidates[LeastOf(valid)])

\* content.js:381-489: nothing without an experience item; the selectors;
\* the fallback when they gave nothing
extractCompany(hasItem, nodes, candidates) ==
  IF ~hasItem THEN Extracted(NoSelector, "")
  ELSE LET i == CompanySelector(nodes)
       IN IF i # NoSelector
          THEN Extracted(i, cleanCompanyName(cleanTextOf(nodes[i])))
          ELSE Extracted(NoSelector,
                         cleanCompanyName(extractCompanyFallback(candidates)))

Fields == {"fullName", "jobTitle", "company", "location"}

\* content.js:118-121
extractField(field, page) ==
  CASE field = "fullName" -> extractName(page.nodes)
    [] field = "jobTitle" -> extractJobTitle(page.nodes)
    [] field = "company" -> extractCompany(page.hasItem, page.nodes, page.candidates)
    [] field = "location" -> extractLocation(page.nodes)

(***************************************************************************)
(* From the document to the fields of the create request: the Record of    *)
(* extractProfileData (content.js:117-127), then the three steps of        *)
(* saveToAirtable on it (background.js:117-139).                           *)
(***************************************************************************)
RECURSIVE Spaced(_)
\* the characters of a text of words: a blank between two words
Spaced(words) ==
  IF Len(words) < 2 THEN words
  ELSE <<words[1], " ">> \o Spaced(Tail(words))

\* the JavaScript string of a text
JsString(text) == Str(Spaced(WordsOf(text)))

\* content.js:887-899: cleanText on every string of the Record
cleanProfileData(data) == [k \in DOMAIN data |-> cleanTextOf(data[k])]

\* content.js:117-127; the picture is left out, it is no text
ExtractedProfile(doc) ==
  cleanProfileData(
    [fullName |-> extractName(doc.fullName).text,
     jobTitle |-> extractJobTitle(doc.jobTitle).text,
     company |-> extractCompany(doc.hasItem, doc.company, <<>>).text,
     location |-> extractLocation(doc.location).text])

\* the Record as the side panel hands it to saveToAirtable
ContactOf(profile, url) ==
  [k \in DOMAIN profile \cup {"profileUrl"} |->
     IF k = "profileUrl" THEN url ELSE JsString(profile[k])]

\* background.js:117-139: mapContactDataToAirtable, then
\* transformFieldsForAirtable, then validateAndFilterFields, the two
\* lookups giving the same schema
FieldsToSend(contactData, fieldMappings, schema) ==
  validateAndFilterFields(
    TransformFields(mapContactDataToAirtable(contactData, fieldMappings), schema),
    schema)


(***************************************************************************)
(* The pure methods of the service, each applied to arguments drawn from   *)
(* bounded sets.                                                           *)
(***************************************************************************)
RECURSIVE StrsOfLen(_)
StrsOfLen(n) ==
  IF n = 0 THEN {<<>>}
  ELSE {<<c>> \o s : c \in Atoms, s \in StrsOfLen(n - 1)}

Strs(n) == UNION {StrsOfLen(k) : k \in 0..n}

RECURSIVE StrArrays(_)
\* the arrays of strings of weight at most w, an item of k atoms weighing k + 1
StrArrays(w) ==
  {<<>>} \cup
  UNION {{<<Str(s)>> \o rest : s \in StrsOfLen(k), rest \in StrArrays(w - 1 - k)} :
           k \in 0..(w - 1)}

\* arrays with items that are not strings
MixedArrays ==
  {<<Null>>, <<Num(1)>>, <<Str(<<"a">>), Num(1)>>, <<Obj(Str(<<"http://", "a">>))>>,
   <<Obj(Null)>>}

Values ==
  {Str(s) : s \in Strs(MaxLen)} \cup
  {Arr(a) : a \in StrArrays(MaxLen + 1) \cup MixedArrays} \cup
  {Null, Num(0), Num(1), Bool(TRUE), Bool(FALSE), Obj(Str(<<"http://", "a">>))}

NotRun == [done |-> FALSE]

TransformCalls ==
  [op : {"transformByFieldType"}, fieldName : {"Name"}, value : Values,
   fieldType : FieldTypes \cup {"unknownType"}, out : {NotRun}]

\* the values of the fields of a validateAndFilterFields call
FieldValues ==
  {Str(<<>>), Str(<<"a">>), Arr(<<Str(<<"a">>)>>)}
\* the types of the schema of a validateAndFilterFields call
SchemaTypes == {"singleLineText", "multipleRecordLinks"}

Maps(names, values) == UNION {[d -> values] : d \in SUBSET names}

Schemas == {NullSchema} \cup {Schema(m) : m \in Maps(FieldNames, SchemaTypes)}

ValidateCalls ==
  [op : {"validateAndFilterFields"}, fields : Maps(FieldNames, FieldValues),
   schema : Schemas, out : {NotRun}]

NoMappings == [k \in {} |-> ""]

\* the contact records and mappings of a mapContactDataToAirtable call
MapContacts ==
  {[k \in {"fullName"} |-> Str(s)] : s \in Strs(MaxLen)} \cup
  {[k \in {"fullName", "tags"} |-> IF k = "fullName" THEN Str(s) ELSE v] :
     s \in Strs(MaxLen), v \in {Null, Str(<<"a">>), Arr(<<Str(<<" ">>)>>)}}
MapMappings ==
  {NoMappings, [k \in {"tags"} |-> "Name"], [k \in {"fullName"} |-> ""]}

MapCalls ==
  [op : {"mapContactDataToAirtable"}, contactData : MapContacts,
   fieldMappings : MapMappings, out : {NotRun}]

ApplyMap ==
  /\ pure.op = "mapContactDataToAirtable"
  /\ ~pure.out.done
  /\ pure' = [pure EXCEPT !.out =
       [done |-> TRUE,
        fields |-> mapContactDataToAirtable(pure.contactData, pure.fieldMappings)]]
  /\ UNCHANGED <<varsX, varsS, handling, admitted, panel>>

\* the errors given to parseAirtableError: the Error of a response that is
\* not ok (background.js:170 with the status text, background.js:1127 and
\* background-production.js:210 without) and the exceptions of fetch
Statuses == {"401", "403", "404", "422", "429", "500"}
StatusTexts == {"", "Error"}
HttpError(status) == <<"HTTP ", status>>
HttpErrorText(status, statusText) == <<"HTTP ", status, ": ", statusText>>
FetchErrors == {<<"Failed to fetch">>, <<"A ", "network", " error occurred">>}
Errors ==
  {HttpError(st) : st \in Statuses} \cup
  {HttpErrorText(st, tx) : st \in Statuses, tx \in StatusTexts} \cup FetchErrors

RECURSIVE WordsOfLen(_)
WordsOfLen(n) ==
  IF n = 0 THEN {<<>>}
  ELSE {<<w>> \o s : w \in MessageWords, s \in WordsOfLen(n - 1)}
Messages == UNION {WordsOfLen(k) : k \in 0..MaxLen}

ErrorTypes ==
  {"UNKNOWN_FIELD_NAME", "INVALID_VALUE_FOR_COLUMN", "INVALID_MULTIPLE_CHOICE_OPTIONS",
   "INVALID_REQUEST_UNKNOWN", "INVALID_REQUEST_BODY", "INVALID_PERMISSIONS",
   "NOT_FOUND", "OTHER_TYPE", ""}
ErrorObject(type, message) == [t |-> "error", type |-> type, message |-> message]
ResponseObject(error, message) == [shape |-> "object", error |-> error, message |-> message]
\* responseData before a response was read (background.js:117)
NoResponseData == [shape |-> "null"]
\* the bodies: {} (also what an unreadable body becomes, background.js:164),
\* {message}, {error: "text"} and {error: {type, message}}, the type or the
\* message left out or given
ResponseBodies ==
  {NoResponseData} \cup
  {ResponseObject(e, m) : e \in {Absent, Str(<<"a">>)}, m \in {Absent, Str(<<"a">>)}} \cup
  {ResponseObject(ErrorObject(ty, m), Absent) :
     ty \in ErrorTypes, m \in {Absent} \cup {Str(w) : w \in Messages}}

ClassifyCalls ==
  [op : {"parseAirtableError"}, build : Builds, error : Errors,
   responseData : ResponseBodies, out : {NotRun}]

ApplyClassify ==
  /\ pure.op = "parseAirtableError"
  /\ ~pure.out.done
  /\ pure' = [pure EXCEPT !.out =
       [done |-> TRUE,
        result |-> Classify(pure.build, pure.error, pure.responseData)]]
  /\ UNCHANGED <<varsX, varsS, handling, admitted, panel>>

\* what the selectors of a list find, a list of MaxLocators selectors
NodeLists == [1..MaxLocators -> NodeTexts \cup {AbsentNode}]
\* the text elements of the first experience item that the fallback scans
CandidateLists == {<<>>, <<"Follow", "Acme Corp">>, <<"Senior Software Engineer">>}
Pages ==
  [nodes : NodeLists, hasItem : {FALSE}, candidates : {<<>>}] \cup
  [nodes : NodeLists, hasItem : {TRUE}, candidates : CandidateLists]

ExtractCalls ==
  {c \in [op : {"extractField"}, field : Fields, page : Pages, out : {NotRun}] :
     c.field # "company" => ~c.page.hasItem}

ApplyExtract ==
  /\ pure.op = "extractField"
  /\ ~pure.out.done
  /\ pure' = [pure EXCEPT !.out =
       [done |-> TRUE, result |-> extractField(pure.field, pure.page)]]
  /\ UNCHANGED <<varsX, varsS, handling, admitted, panel>>

\* the candidates of isValidCompanyName: the texts of one to MaxWords of
\* these words
CompanyWords ==
  {"Senior", "senior", "Head", "of", "Software", "Engineer", "ENGINEER",
   "Engineering", "Designer", "Corp", "Follow", "Full-time", "2019", "-",
   "Present"}
CompanyTexts == UNION {[1..n -> CompanyWords] : n \in 1..MaxWords}
CompanyNameCalls ==
  [op : {"isValidCompanyName"}, text : CompanyTexts, out : {NotRun}]

\* the value returned and the line logged
CallIsValidCompanyName ==
  /\ pure.op = "isValidCompanyName"
  /\ ~pure.out.done
  /\ pure' = [pure EXCEPT !.out =
       [done |-> TRUE,
        result |-> isValidCompanyName(pure.text),
        logged |-> CompanyNameVerdict(pure.text)]]
  /\ UNCHANGED <<varsX, varsS, handling, admitted, panel>>

\* the documents of an end-to-end call: what the selectors of the name,
\* of the job title, of the company and of the location find
ProfileDocuments ==
  [fullName : {<<"Jane Doe">>},
   jobTitle : {<<"Product Manager · Full-time">>, <<AbsentNode>>},
   hasItem : {FALSE},
   company : {<<AbsentNode>>},
   location : {<<"500+ connections">>, <<"Austin, TX">>, <<"Follow", "Austin, TX">>,
               <<AbsentNode>>}]
ProfileUrl == Str(<<"https://", "x/in/jane">>)
\* {Name: text, "Job Title": text, Location: text}
ProfileSchema ==
  Schema([n \in {"Name", "Job Title", "Location"} |-> "singleLineText"])
ProfileCalls ==
  [op : {"extractAndFilter"}, doc : ProfileDocuments, schema : {ProfileSchema, NullSchema},
   out : {NotRun}]

ApplyProfile ==
  /\ pure.op = "extractAndFilter"
  /\ ~pure.out.done
  /\ pure' = [pure EXCEPT !.out =
       [done |-> TRUE,
        record |-> ExtractedProfile(pure.doc),
        result |-> FieldsToSend(ContactOf(ExtractedProfile(pure.doc), ProfileUrl),
                                NoMappings, pure.schema)]]
  /\ UNCHANGED <<varsX, varsS, handling, admitted, panel>>

ApplyTransform ==
  /\ pure.op = "transformByFieldType"
  /\ ~pure.out.done
  /\ pure' = [pure EXCEPT !.out =
       [done |-> TRUE,
        value |-> transformByFieldType(pure.fieldName, pure.value, pure.fieldType)]]
  /\ UNCHANGED <<varsX, varsS, handling, admitted, panel>>

ApplyValidate ==
  /\ pure.op = "validateAndFilterFields"
  /\ ~pure.out.done
  /\ pure' = [pure EXCEPT !.out =
       [done |-> TRUE,
        result |-> validateAndFilterFields(pure.fields, pure.schema)]]
  /\ UNCHANGED <<varsX, varsS, handling, admitted, panel>>

\* no extractor runs in the service worker
ExtractorAbsent ==
  /\ variant = "none"
  /\ href = ""
  /\ dom = Doc("absent", "absent", "absent")
  /\ isExtracting = FALSE
  /\ runs = <<>>
  /\ profileData = EmptyObject
  /\ timers = <<>>
  /\ requests = <<>>
  /\ sent = <<>>
  /\ response = NoResponse

InitPure ==
  /\ ExtractorAbsent
  /\ ServiceIdle
  /\ storage = [k \in Identities |-> NoEntry]
  /\ pure \in TransformCalls \cup ValidateCalls \cup MapCalls \cup ClassifyCalls
            \cup ExtractCalls \cup ProfileCalls

NextPure ==
  \/ ApplyTransform
  \/ ApplyValidate
  \/ ApplyMap
  \/ ApplyClassify
  \/ ApplyExtract
  \/ ApplyProfile

SpecPure == InitPure /\ [][NextPure]_vars

(***************************************************************************)
(* The three steps of saveToAirtable run again and again on the same       *)
(* objects (background.js:127-139).  contactData, fieldMappings and the    *)
(* schema are objects of the caller; every step writes to an object it     *)
(* has made itself: fields (background.js:303), sanitized (:356),          *)
(* transformedFields (:560), validFields and excludedFields (:371-372).    *)
(***************************************************************************)
PipelineSchemas ==
  {NullSchema,
   Schema([n \in {"Name", "Tag"} |->
             IF n = "Name" THEN "singleLineText" ELSE "multipleRecordLinks"]),
   Schema([n \in {"Name", "Tag"} |->
             IF n = "Name" THEN "multipleSelects" ELSE "singleLineText"])}
PipelineCalls ==
  [op : {"pipeline"}, contactData : MapContacts, fieldMappings : MapMappings,
   schema : PipelineSchemas, results : {<<>>}]

\* the mapping written into the Record itself
MappedInPlace(call, fields) ==
  [call EXCEPT !.contactData =
     [k \in DOMAIN call.contactData |-> sanitizeValue(call.contactData[k])]]
\* background.js:303, 309: const fields = {}; fields[airtableField] = ...
Mapped(call, fields) == call

\* one run of the three steps
RunPipeline ==
  /\ pure.op = "pipeline"
  /\ Len(pure.results) < MaxRuns
  /\ LET fields == mapContactDataToAirtable(pure.contactData, pure.fieldMappings)
          after == Mapped(pure, fields)
          result == validateAndFilterFields(TransformFields(fields, after.schema),
                                            after.schema)
     IN pure' = [after EXCEPT !.results = Append(@, result)]
  /\ UNCHANGED <<varsX, varsS, handling, admitted, panel>>

InitPipeline ==
  /\ ExtractorAbsent
  /\ ServiceIdle
  /\ storage = [k \in Identities |-> NoEntry]
  /\ pure \in PipelineCalls
NextPipeline == RunPipeline
SpecPipeline == InitPipeline /\ [][NextPipeline]_vars

\* isValidCompanyName on its own, on every candidate
InitValidator ==
  /\ ExtractorAbsent
  /\ ServiceIdle
  /\ storage = [k \in Identities |-> NoEntry]
  /\ pure \in CompanyNameCalls
NextValidator == CallIsValidCompanyName
SpecValidator == InitValidator /\ [][NextValidator]_vars

(***************************************************************************)
(* RateLimiter on its own (part_000:1-29; the same class in                *)
(* tag-storage.js): canMakeRequest called at any times that do not         *)
(* decrease, a tick between two calls or none.                             *)
(***************************************************************************)
\* the limit taken one too high
AdmitsOneMore(live) == Len(live) <= MaxRequests

\* part_000:12-14: this.requests.length >= this.maxRequests answers false
Admits(live) == Len(live) < MaxRequests

\* part_000:8-18, RateLimiter.canMakeRequest: the answer and this.requests
\* after the call
canMakeRequest(reqs) ==
  LET live == SelectAges(reqs, WindowTicks)
  IN IF Admits(live) THEN [ok |-> TRUE, requests |-> Append(live, 0)]
     ELSE [ok |-> FALSE, requests |-> live]

CallCanMakeRequest ==
  /\ LET answer == canMakeRequest(requests)
     IN /\ requests' = answer.requests
        /\ admitted' =
             [ages |-> IF answer.ok THEN Append(admitted.ages, 0) ELSE admitted.ages,
              last |-> [called |-> TRUE, ok |-> answer.ok, found |-> requests,
                        left |-> answer.requests]]
  /\ UNCHANGED <<variant, href, dom, isExtracting, runs, profileData, timers, sent,
                 response, pure, handling, panel, varsS>>

\* 500 ms pass: every recorded time is a tick older; a call answered true
\* a whole window ago is in no window that ends now or later
LimiterTick ==
  /\ requests' = [i \in 1..Len(requests) |-> Min(requests[i] + 1, WindowTicks)]
  /\ admitted' =
       [ages |-> SelectAges([i \in 1..Len(admitted.ages) |-> admitted.ages[i] + 1],
                            WindowTicks),
        last |-> NotAsked.last]
  /\ UNCHANGED <<variant, href, dom, isExtracting, runs, profileData, timers, sent,
                 response, pure, handling, panel, varsS>>

\* part_000:2-6: new RateLimiter(3, 5000)
InitRateLimiter ==
  /\ ExtractorAbsent
  /\ BackgroundAbsent

NextRateLimiter ==
  \/ CallCanMakeRequest
  \/ LimiterTick

SpecRateLimiter == InitRateLimiter /\ [][NextRateLimiter]_vars

(***************************************************************************)
(* One trigger of performInitialExtraction (part_000:78-99,                *)
(* tag-storage.js:245-268) and no other: the timer of a navigation is      *)
(* pending on a profile page, the limiter holds the requests of earlier    *)
(* triggers, and nothing else calls the extractor.                         *)
(***************************************************************************)
\* this.requests as earlier triggers can have left it: at most maxRequests
\* times, the oldest first
LimiterStates ==
  {s \in UNION {[1..n -> 0..WindowTicks] : n \in 0..MaxRequests} :
     \A i \in 1..(Len(s) - 1) : s[i] >= s[i + 1]}

InitDeferral ==
  /\ variant = "limited"
  /\ href \in {u \in Urls : isLinkedInProfilePage(u)}
  /\ dom \in Documents
  /\ isExtracting = FALSE
  /\ runs = <<>>
  /\ profileData = EmptyObject
  /\ timers = <<Timer(NavigationDelay, "navigation")>>
  /\ requests \in LimiterStates
  /\ sent = <<>>
  /\ response = NoResponse
  /\ BackgroundAbsent

NextDeferral ==
  \/ PerformFire
  \/ PollFire
  \/ Tick

SpecDeferral == InitDeferral /\ [][NextDeferral]_vars

\* timers fire when due and time passes
FairDeferral ==
  SpecDeferral /\ WF_vars(Tick) /\ WF_vars(PollFire) /\ WF_vars(PerformFire)

(***************************************************************************)
(* handleMessage (background.js:33-63, background-production.js:315-348)   *)
(* and the operations it dispatches: saveToAirtable (background.js:        *)
(* 105-210, background-production.js:38-104), testAirtableConnection       *)
(* (background.js:215-280), testFieldMappings (background.js:1084-1168,    *)
(* background-production.js:172-248) and fetchAvailableFields              *)
(* (background.js:1021-1056).  One message is followed from its arrival    *)
(* to its sendResponse, a step for each await on the network.  Of the      *)
(* schema cache only whether it holds a fresh entry for the configuration  *)
(* is kept; of a successful payload only success.                          *)
(***************************************************************************)
ConfigFields == {"apiToken", "baseId", "tableId"}
MessageActions ==
  {"saveToAirtable", "testAirtableConnection", "testFieldMappings",
   "fetchAvailableFields", "otherAction"}

\* the test taken with && in place of ||
ConfigAllMissing(config) == config = {}

\* !config.apiToken || !config.baseId || !config.tableId, the configuration
\* given as the set of its fields that are there
ConfigIncomplete(config) == config # ConfigFields

Failure(error) == [success |-> FALSE, error |-> error]
\* background.js:108-113
IncompleteSave == Failure(Fixed("Airtable configuration is incomplete"))
\* background.js:216-221, 1022-1027, 1085-1090
IncompleteTest == Failure(Fixed("Please provide all required configuration fields"))
\* background.js:57
UnknownAction == Failure(Fixed("Unknown action"))
\* background.js:1037-1040
NoSchema ==
  Failure(Fixed("Could not fetch table schema. Please check your configuration."))
\* background.js:59-62: the catch of handleMessage
Uncaught(message) == Failure(Text("${error.message}", <<<<message>>>>))
Succeeded == [success |-> TRUE]

\* background.js:175-180 and 202-207, background-production.js:80-84 and 98-102
ClassifiedFailure(errorInfo) ==
  IF "fieldErrors" \in DOMAIN errorInfo
  THEN [success |-> FALSE, error |-> errorInfo.message,
        unknownFields |-> errorInfo.unknownFields,
        fieldErrors |-> errorInfo.fieldErrors]
  ELSE [success |-> FALSE, error |-> errorInfo.message,
        unknownFields |-> errorInfo.unknownFields]

NoFault == [failed |-> FALSE]
Fault(error, responseData) ==
  [failed |-> TRUE, error |-> error, responseData |-> responseData]
NoReply == [sent |-> FALSE]

\* request.action and request.config of a message that has just arrived,
\* and whether this.cachedSchema is a fresh entry of that configuration
NewMessage(build, action, config, fresh) ==
  [pc |-> "arrived", build |-> build, action |-> action, config |-> config,
   fresh |-> fresh, lookup |-> 1, net |-> <<>>, fault |-> NoFault,
   cleanup |-> "none", reply |-> NoReply]

\* sendResponse(payload)
Answer(h, payload) ==
  [h EXCEPT !.pc = "answered", !.reply = [sent |-> TRUE, payload |-> payload]]
\* await fetch(...)
Request(h, kind) == [h EXCEPT !.pc = kind, !.net = Append(@, kind)]

\* background.js:558: the lookup of transformFieldsForAirtable, and the
\* create request after it when the cache serves it
SecondLookup(h) ==
  LET g == [h EXCEPT !.lookup = 2]
  IN IF g.fresh THEN Request(g, "create") ELSE Request(g, "schema")

\* the caller goes on when fetchTableSchema has returned a schema (found)
\* or null
AfterSchema(h, found) ==
  IF h.action = "fetchAvailableFields"
  THEN Answer(h, IF found THEN Succeeded ELSE NoSchema)
  ELSE IF h.lookup = 1 THEN SecondLookup(h)
  ELSE Request(h, "create")

\* background.js:771-788: fetchTableSchema to its first await
FirstLookup(h) ==
  IF h.fresh THEN AfterSchema(h, TRUE) ELSE Request(h, "schema")

\* handleMessage to the first await of the operation it dispatches
Dispatch(h) ==
  CASE h.action = "saveToAirtable" ->
         IF ConfigIncomplete(h.config) THEN Answer(h, IncompleteSave)
         ELSE IF h.build = "background.js" THEN FirstLookup(h)
         ELSE Request(h, "create")
    [] h.action = "testAirtableConnection" ->
         IF ConfigIncomplete(h.config) THEN Answer(h, IncompleteTest)
         ELSE Request(h, "connectionTest")
    [] h.action = "testFieldMappings" ->
         IF ConfigIncomplete(h.config) THEN Answer(h, IncompleteTest)
         ELSE Request(h, "create")
    [] h.action = "fetchAvailableFields" /\ h.build = "background.js" ->
         IF ConfigIncomplete(h.config) THEN Answer(h, IncompleteTest)
         ELSE FirstLookup(h)
    [] OTHER -> Answer(h, UnknownAction)

\* chrome.runtime.onMessage (background.js:24-29), the message before it
\* answered and done with
Receive ==
  /\ handling.pc = "none"
  /\ \E build \in Builds, action \in MessageActions, config \in SUBSET ConfigFields :
       \E fresh \in IF /\ build = "background.js"
                       /\ action \in {"saveToAirtable", "fetchAvailableFields"}
                       /\ ~ConfigIncomplete(config)
                    THEN BOOLEAN ELSE {FALSE} :
         handling' = Dispatch(NewMessage(build, action, config, fresh))
  /\ UNCHANGED <<varsX, varsS, pure, admitted, panel>>

\* background.js:783-877: the metadata request has settled: the schema was
\* read and cached ("ok"), or an older copy was returned in its place
\* ("older"), or null ("none")
SchemaDone ==
  /\ handling.pc = "schema"
  /\ \E outcome \in {"ok", "older", "none"} :
       handling' = AfterSchema([handling EXCEPT !.fresh = (outcome = "ok")],
                               outcome # "none")
  /\ UNCHANGED <<varsX, varsS, pure, admitted, panel>>

\* fetch of the create request rejects: the catch of the operation.  In
\* background.js:1159 the catch of testFieldMappings reads testFields, a
\* const of the try block: a ReferenceError that handleMessage catches.
CreateThrew(h, error) ==
  LET g == [h EXCEPT !.fault = Fault(error, NoResponseData)]
  IN IF h.action = "testFieldMappings" /\ h.build = "background.js"
     THEN Answer(g, Uncaught("testFields is not defined"))
     ELSE Answer(g, ClassifiedFailure(Classify(h.build, error, NoResponseData)))

\* the response of the create request is not ok (background.js:168-181,
\* 1128-1137; background-production.js:74-85, 209-217); an exception of
\* parseAirtableError is thrown again by the catch that calls it anew
CreateRefused(h, status, statusText, responseData) ==
  LET error == IF h.action = "saveToAirtable"
               THEN HttpErrorText(status, statusText) ELSE HttpError(status)
      g == [h EXCEPT !.fault = Fault(error, responseData)]
      errorInfo == Classify(h.build, error, responseData)
  IN IF errorInfo.threw
     THEN Answer(g, Uncaught(errorInfo.name))
     ELSE IF h.action = "saveToAirtable"
     THEN Answer(g, ClassifiedFailure(errorInfo))
     ELSE Answer(g, ClassifiedFailure(errorInfo) @@ [responseData |-> responseData])

\* the record was created (background.js:183-194, 1139-1156)
Created(h, hasId) ==
  IF h.action = "testFieldMappings" /\ hasId
  THEN Request(h, "delete")
  ELSE Answer(h, Succeeded)

\* the create request has settled
CreateDone ==
  /\ handling.pc = "create"
  /\ \/ \E error \in FetchErrors : handling' = CreateThrew(handling, error)
     \/ \E status \in Statuses, statusText \in StatusTexts,
           responseData \in ResponseBodies \ {NoResponseData} :
          handling' = CreateRefused(handling, status, statusText, responseData)
     \/ \E hasId \in BOOLEAN : handling' = Created(handling, hasId)
  /\ UNCHANGED <<varsX, varsS, pure, admitted, panel>>

\* the cleanup without its try: an exception of the delete request reaches
\* the catch of testFieldMappings
CleanedUnguarded(h, outcome) ==
  LET g == [h EXCEPT !.cleanup = outcome]
  IN IF outcome = "throw" THEN Answer(g, Uncaught("Failed to fetch"))
     ELSE Answer(g, Succeeded)

\* background.js:1140-1156, background-production.js:219-237: the delete
\* request has settled; its response is not read, its exception is caught
Cleaned(h, outcome) == Answer([h EXCEPT !.cleanup = outcome], Succeeded)

DeleteDone ==
  /\ handling.pc = "delete"
  /\ \E outcome \in {"ok", "errorStatus", "throw"} :
       handling' = Cleaned(handling, outcome)
  /\ UNCHANGED <<varsX, varsS, pure, admitted, panel>>

\* background.js:240-253: responseData.error?.message || `HTTP ${status}`,
\* then the two statuses with a message of their own
ConnectionRefused(status, responseData) ==
  IF status = "401" THEN Fixed("Invalid API token")
  ELSE IF status = "404" THEN Fixed("Base or table not found")
  ELSE IF /\ responseData.error.t = "error"
          /\ responseData.error.message # Absent
          /\ responseData.error.message.s # <<>>
  THEN Text("${responseData.error.message}", <<responseData.error.message.s>>)
  ELSE Text("${error.message}", <<HttpError(status)>>)

\* background.js:262-279
ConnectionThrew(error) ==
  IF Includes(error, "401") THEN Fixed("Invalid API token")
  ELSE IF Includes(error, "404") THEN Fixed("Base or table not found")
  ELSE IF Includes(error, "Failed to fetch") THEN NetworkError
  ELSE Text("${error.message}", <<error>>)

\* the bodies of a connection test that was refused
ConnectionBodies ==
  {ResponseObject(Absent, Absent),
   ResponseObject(ErrorObject("NOT_FOUND", Str(<<"a">>)), Absent),
   ResponseObject(ErrorObject("NOT_FOUND", Absent), Absent)}

\* background.js:226-279: the request of testAirtableConnection has settled
ConnectionTestDone ==
  /\ handling.pc = "connectionTest"
  /\ \/ \E error \in FetchErrors :
          handling' = Answer(handling, Failure(ConnectionThrew(error)))
     \/ \E status \in Statuses, responseData \in ConnectionBodies :
          handling' = Answer(handling, Failure(ConnectionRefused(status, responseData)))
     \/ handling' = Answer(handling, Succeeded)
  /\ UNCHANGED <<varsX, varsS, pure, admitted, panel>>

\* the promise of handleMessage settles after its sendResponse
\* (background.js:26-27, 33-63)
Settle ==
  /\ handling.pc = "answered"
  /\ handling' = NoMessage
  /\ UNCHANGED <<varsX, varsS, pure, admitted, panel>>

\* background.js:7-11: a service to which no message has come yet
InitHandler ==
  /\ ExtractorAbsent
  /\ pure = NoCall
  /\ ServiceIdle
  /\ storage = [k \in Identities |-> NoEntry]

NextHandler ==
  \/ Receive
  \/ SchemaDone
  \/ CreateDone
  \/ DeleteDone
  \/ ConnectionTestDone
  \/ Settle

SpecHandler == InitHandler /\ [][NextHandler]_vars

(***************************************************************************)
(* saveContact of the side panel (sidepanel.js:498-610; part_001:557-676   *)
(* is the same code).  Each submit event of the form calls it              *)
(* (sidepanel.js:56-59); a call stands at its await of                     *)
(* chrome.storage.sync.get ("config") or of chrome.runtime.sendMessage     *)
(* ("saving"), and events are handled between the awaits.                  *)
(***************************************************************************)
\* what chrome.storage.sync holds under airtableConfig
StoredConfigs == {"none", "incomplete", "complete"}
NoAlert == "none"

\* sidepanel.js:770-781: setLoadingState
setLoadingState(p, loading) == [p EXCEPT !.isLoading = loading]
\* sidepanel.js:607-609: the finally block, left through whatever way
Finally(p) == setLoadingState(p, FALSE)
showAlert(p, message) == [p EXCEPT !.alert = message]

\* sidepanel.js:501-509: the form is valid and the call goes to its first
\* await; isLoading is as it was
AwaitConfiguration(p, i) == [p EXCEPT !.submits[i] = "config"]

\* sidepanel.js:56-59, 498-509: a submit event
SubmitForm ==
  /\ panel.open
  /\ \E i \in 1..MaxSubmits, valid \in BOOLEAN :
       /\ panel.submits[i] = "idle"
       /\ \A j \in 1..(i - 1) : panel.submits[j] # "idle"
       /\ panel' =
            IF panel.isLoading
            THEN [panel EXCEPT !.dropped = @ + (IF @ < MaxSubmits THEN 1 ELSE 0)]
            ELSE IF ~valid
            THEN Finally(showAlert(panel, "Please fix the form errors before saving"))
            ELSE AwaitConfiguration(panel, i)
  /\ UNCHANGED <<varsX, varsS, pure, handling, admitted>>

\* sidepanel.js:509-538: chrome.storage.sync.get has settled
ConfigurationRead ==
  /\ panel.open
  /\ \E i \in 1..MaxSubmits :
       /\ panel.submits[i] = "config"
       /\ panel' =
            CASE panel.config = "none" ->
                   [Finally(showAlert(panel, "Please configure Airtable settings first"))
                      EXCEPT !.submits[i] = "idle"]
              [] panel.config = "incomplete" ->
                   [Finally(showAlert(panel, "Airtable configuration is incomplete"))
                      EXCEPT !.submits[i] = "idle"]
              [] OTHER ->
                   [setLoadingState(panel, TRUE) EXCEPT !.submits[i] = "saving"]
  /\ UNCHANGED <<varsX, varsS, pure, handling, admitted>>

\* sidepanel.js:540-609: the answer to the saveToAirtable message; without
\* an answer result.success throws
SaveAnswered ==
  /\ panel.open
  /\ \E i \in 1..MaxSubmits, outcome \in {"success", "failure", "thrown"} :
       /\ panel.submits[i] = "saving"
       /\ panel' =
            [Finally(showAlert(panel,
               CASE outcome = "success" -> "Contact saved successfully!"
                 [] outcome = "failure" -> "Failed to save contact"
                 [] OTHER -> "An unexpected error occurred while saving"))
               EXCEPT !.submits[i] = "idle"]
  /\ UNCHANGED <<varsX, varsS, pure, handling, admitted>>

\* sidepanel.js:8: isLoading = false
InitPanel ==
  /\ ExtractorAbsent
  /\ pure = NoCall
  /\ handling = NoMessage
  /\ admitted = NotAsked
  /\ cachedSchema = NoEntry
  /\ calls = [c \in 1..MaxCalls |-> Idle]
  /\ log = <<>>
  /\ posted = NoPost
  /\ lastOK = [k \in Identities |-> Never]
  /\ storage = [k \in Identities |-> NoEntry]
  /\ panel \in [open : {TRUE}, isLoading : {FALSE}, config : StoredConfigs,
                 submits : {[i \in 1..MaxSubmits |-> "idle"]}, alert : {NoAlert},
                 dropped : {0}]
NextPanel ==
  \/ SubmitForm
  \/ ConfigurationRead
  \/ SaveAnswered
SpecPanel == InitPanel /\ [][NextPanel]_vars

(***************************************************************************)
(* Claims about the extractor.                                             *)
(***************************************************************************)

\* The guard of content.js:104 alone: never two runs of extractProfileData
\* in their waiting/extracting phase, and the flag is set exactly while one is.
SingleFlight == Len(runs) <= 1 /\ (isExtracting <=> Len(runs) = 1)

\* C1: at every moment at most one run of extractProfileData is waiting or
\* extracting, and a trigger that arrives while isExtracting is true (an
\* extractProfile request, or a performInitialExtraction timer of the initial
\* load or of a navigation) starts no second run and is not queued for
\* later: it leaves no new pending performInitialExtraction timer behind.
C1_DroppedNotQueued ==
  [][ /\ Len(runs') <= 1
      /\ (isExtracting /\ ExtractProfileRequest)
           => (runs' = runs /\ timers' = timers)
      /\ (isExtracting /\ PerformFire)
           => (runs' = runs /\ Len(timers') < Len(timers)) ]_vars

\* C2: an extraction whose Record has an empty fullName re-enters Waiting
\* once and no more: the performInitialExtraction that a retry timer fired
\* (the one re-entry of its trigger) never arms another retry timer, so the
\* attempts of one trigger are finitely many and no retry timer stays
\* pending.
C2_OneReentry ==
  [][ LET fresh(tm) == Cardinality({j \in 1..Len(tm) :
                                      tm[j] = Timer(RetryDelay, "retry")})
          \* the extraction of this step produced a Record and pushed it
          produced == Len(sent') = 2 /\ sent'[1].action = "profileDataExtracted"
      IN (fresh(timers') > fresh(timers) /\ produced)
           => /\ ~\E i \in 1..Len(runs) :
                    runs[i].who = "retry" /\ runs' = RemoveAt(runs, i)
              /\ ~\E i \in 1..Len(timers) :
                    /\ timers[i] = Timer(0, "retry")
                    /\ runs' = runs
                    /\ timers' = InsertTimer(RemoveAt(timers, i),
                                             Timer(RetryDelay, "retry")) ]_vars

\* C3: every Record handed downstream by a profileDataExtracted push has a
\* non-empty fullName.
C3_ForwardedHasName ==
  \A i \in 1..Len(sent) :
    sent[i].action = "profileDataExtracted" => sent[i].data.fullName # ""

\* C4: every started extraction eventually returns the orchestrator to Idle
\* (isExtracting = false), whether field extraction succeeded or a fault was
\* raised while waiting or extracting.
C4_ReturnsToIdle == isExtracting ~> ~isExtracting

\* the extraction an extractProfile request started has just ended in the
\* catch block with an unexpected fault, and the orchestrator is idle again
C4_Witness ==
  /\ ~isExtracting
  /\ runs = <<>>
  /\ \E i \in 1..Len(sent) : sent[i].error = UnexpectedFault
  /\ response.to = "extractProfile"

\* C5: when the readiness condition was never satisfied within the maximum
\* number of polls, the orchestrator proceeds to field extraction instead of
\* ending the attempt in Error: no profileExtractionError push reports that
\* the wait found nothing.
C5_ExhaustedWaitProceeds ==
  \A i \in 1..Len(sent) :
    sent[i].action = "profileExtractionError"
      => sent[i].error # NotFoundAfterWaiting

(***************************************************************************)
(* The schema cache and the calls that use it: fetchTableSchema            *)
(* (background.js:766-878), called once by fetchAvailableFields            *)
(* (background.js:1021-1056) and twice by saveToAirtable                   *)
(* (background.js:105-210, the second time inside                          *)
(* transformFieldsForAirtable, background.js:558).  Time passes in         *)
(* ticks of 150 s; an age stops growing at TTL, where the entry is stale.  *)
(***************************************************************************)
Entry(key, types, age) ==
  [present |-> TRUE, configKey |-> key, fieldTypes |-> types, age |-> age]
Stored(types, age) == [present |-> TRUE, fieldTypes |-> types, age |-> age]

\* the tables behind the two identities, as the metadata API describes them
TypesA ==
  [n \in {"Name", "LinkedIn URL", "Tag"} |->
     CASE n = "Name" -> "singleLineText"
       [] n = "LinkedIn URL" -> "url"
       [] n = "Tag" -> "multipleSelects"]
TypesB ==
  [n \in {"Name", "LinkedIn URL"} |->
     CASE n = "Name" -> "singleLineText"
       [] n = "LinkedIn URL" -> "multipleRecordLinks"]
RemoteTable(key) == IF key = "baseA:tblA" THEN TypesA ELSE TypesB

\* the contact records given to saveToAirtable
Contacts ==
  {[k \in {"fullName", "profileUrl", "tags"} |->
      CASE k = "fullName" -> Str(<<"a">>)
        [] k = "profileUrl" -> Str(<<"https://", "a">>)
        [] k = "tags" -> Str(<<"a", ",", "a">>)],
   [k \in {"fullName"} |-> Str(<<" ", "a">>)],
   \* the URL field filled with an id, a comma and a URL
   [k \in {"fullName", "profileUrl"} |->
      IF k = "fullName" THEN Str(<<"a">>) ELSE Str(<<"a", ",", "https://", "a">>)]}
NoContact == [k \in {} |-> Null]

\* the inverted freshness test
CacheStale(cache, configKey) ==
  /\ cache.present
  /\ cache.configKey = configKey
  /\ cache.age >= TTL

\* background.js:771-774
CacheFresh(cache, configKey) ==
  /\ cache.present
  /\ cache.configKey = configKey
  /\ cache.age < TTL

\* the fields of the new entry written one by one into the object that is
\* there, its configKey left as it was
AssignedFieldByField(cache, entry) ==
  IF cache.present
  THEN [cache EXCEPT !.fieldTypes = entry.fieldTypes, !.age = entry.age]
  ELSE entry
\* background.js:830-835 and 866-869: this.cachedSchema = { ... }, a new
\* object in one assignment
Assigned(cache, entry) == entry

\* background.js:124-159: the request body built once both lookups returned
CreateRequest(key, schema1, schema2, contact) ==
  LET mapped == mapContactDataToAirtable(contact, NoMappings)
      fields == TransformFields(mapped, schema2)
      validationResult == validateAndFilterFields(fields, schema1)
  IN [sent |-> TRUE, key |-> key, schema1 |-> schema1, schema2 |-> schema2,
      mapped |-> mapped, fields |-> validationResult.validFields,
      excludedFields |-> validationResult.excludedFields]

Fetching(op, stage, key, schema1) ==
  [pc |-> "fetching", op |-> op, stage |-> stage, key |-> key,
   schema1 |-> schema1, ret |-> NullSchema]
Posting == [pc |-> "posting"]

\* a lookup starts: whether it goes to the network, the time since the
\* latest successful fetch for its identity, and whether the in-memory
\* entry is still the one that fetch stored
Started(key, net, cache, lo) ==
  [ev |-> "start", key |-> key, net |-> net, since |-> lo[key],
   kept |-> lo[key].has /\ cache.present /\ cache.configKey = key
              /\ cache.age = lo[key].age,
   result |-> IF net THEN NullSchema ELSE Schema(cache.fieldTypes)]
\* a lookup returns after its fetch failed: the in-memory entry and the
\* durable copy it found, and what it returns
FailedLookup(key, how, cache, dur, result) ==
  [ev |-> "failed", key |-> key, how |-> how,
   mem |-> IF cache.present /\ cache.configKey = key
           THEN Schema(cache.fieldTypes) ELSE NullSchema,
   dur |-> IF dur.present THEN Schema(dur.fieldTypes) ELSE NullSchema,
   result |-> result]

\* background.js:558: the lookup of transformFieldsForAirtable, then
\* background.js:560-159 when it is served from the cache
BeginSecond(call, schema1, cache, lo, contact) ==
  IF CacheFresh(cache, call.key)
  THEN [slot |-> Posting,
        posted |-> CreateRequest(call.key, schema1, Schema(cache.fieldTypes), contact),
        log |-> <<Started(call.key, FALSE, cache, lo)>>]
  ELSE [slot |-> Fetching("saveToAirtable", 2, call.key, schema1),
        posted |-> NoPost,
        log |-> <<Started(call.key, TRUE, cache, lo)>>]

\* the caller's continuation when fetchTableSchema returns result
AfterLookup(call, result, cache, lo, contact) ==
  IF call.op = "fetchAvailableFields"
  THEN [slot |-> Idle, posted |-> NoPost, log |-> <<>>]
  ELSE IF call.stage = 1
  THEN BeginSecond(call, result, cache, lo, contact)
  ELSE [slot |-> Posting,
        posted |-> CreateRequest(call.key, call.schema1, result, contact),
        log |-> <<>>]

\* background.js:766-788: fetchTableSchema up to its first await
Begin(op, key, cache, lo, contact) ==
  IF CacheFresh(cache, key)
  THEN LET r == AfterLookup(Fetching(op, 1, key, NullSchema),
                            Schema(cache.fieldTypes), cache, lo, contact)
       IN [r EXCEPT !.log = <<Started(key, FALSE, cache, lo)>> \o @]
  ELSE [slot |-> Fetching(op, 1, key, NullSchema),
        posted |-> NoPost,
        log |-> <<Started(key, TRUE, cache, lo)>>]

\* the contact record of a saveToAirtable call is read only when the request
\* is built, so the model draws it in the step that builds the request
ContactsAt(call, cache) ==
  IF call.op = "saveToAirtable" /\ (call.stage = 2 \/ CacheFresh(cache, call.key))
  THEN Contacts ELSE {NoContact}

FreeSlot(c) ==
  /\ calls[c].pc = "idle"
  /\ \A d \in 1..(c - 1) : calls[d].pc # "idle"

\* background.js:1021-1056
CallFetchAvailableFields ==
  \E c \in 1..MaxCalls, key \in Identities :
    /\ FreeSlot(c)
    /\ LET r == Begin("fetchAvailableFields", key, cachedSchema, lastOK, NoContact)
       IN /\ calls' = [calls EXCEPT ![c] = r.slot]
          /\ posted' = r.posted
          /\ log' = r.log
    /\ UNCHANGED <<cachedSchema, storage, lastOK, varsX, pure, handling, admitted, panel>>

\* a saveToAirtable call is in flight: the side panel disables its save
\* button until the answer is back (sidepanel.js:529, 770-781)
Saving ==
  \E d \in 1..MaxCalls :
    \/ calls[d].pc = "posting"
    \/ calls[d].pc \in {"fetching", "storing", "loading"} /\ calls[d].op = "saveToAirtable"

\* background.js:105-124
CallSaveToAirtable ==
  \E c \in 1..MaxCalls, key \in Identities :
    /\ FreeSlot(c)
    /\ ~Saving
    /\ \E contact \in ContactsAt(Fetching("saveToAirtable", 1, key, NullSchema),
                                 cachedSchema) :
       LET r == Begin("saveToAirtable", key, cachedSchema, lastOK, contact)
       IN /\ calls' = [calls EXCEPT ![c] = r.slot]
          /\ posted' = r.posted
          /\ log' = r.log
    /\ UNCHANGED <<cachedSchema, storage, lastOK, varsX, pure, handling, admitted, panel>>

Resume(c, r, failures) ==
  /\ calls' = [calls EXCEPT ![c] = r.slot]
  /\ posted' = r.posted
  /\ log' = failures \o r.log

\* background.js:783-853: the metadata request completes
Respond ==
  \E c \in 1..MaxCalls :
    /\ calls[c].pc = "fetching"
    /\ \E outcome \in {"ok", "noTable", "httpError", "throw"} :
       \E setOK \in IF outcome = "ok" THEN BOOLEAN ELSE {TRUE},
          contact \in IF outcome \in {"noTable", "httpError"}
                      THEN ContactsAt(calls[c], cachedSchema) ELSE {NoContact} :
         LET call == calls[c]
             key == call.key
         IN CASE outcome = "httpError" ->
                   \* background.js:791-803
                   LET result == IF cachedSchema.present /\ cachedSchema.configKey = key
                                 THEN Schema(cachedSchema.fieldTypes)
                                 ELSE NullSchema
                   IN /\ Resume(c, AfterLookup(call, result, cachedSchema, lastOK, contact),
                                <<FailedLookup(key, "httpError", cachedSchema,
                                               storage[key], result)>>)
                      /\ UNCHANGED <<cachedSchema, storage, lastOK>>
              [] outcome = "noTable" ->
                   \* background.js:852-853
                   /\ Resume(c, AfterLookup(call, NullSchema, cachedSchema, lastOK, contact),
                             <<>>)
                   /\ UNCHANGED <<cachedSchema, storage, lastOK>>
              [] outcome = "ok" ->
                   \* background.js:805-847: the entry is replaced, the durable
                   \* copy is written unless chrome.storage refuses it
                   /\ cachedSchema' = Assigned(cachedSchema, Entry(key, RemoteTable(key), 0))
                   /\ storage' = IF setOK
                                 THEN [storage EXCEPT ![key] = Stored(RemoteTable(key), 0)]
                                 ELSE storage
                   /\ lastOK' = [lastOK EXCEPT ![key] = [has |-> TRUE, age |-> 0]]
                   /\ calls' = [calls EXCEPT ![c] =
                        [call EXCEPT !.pc = "storing", !.ret = Schema(RemoteTable(key))]]
                   /\ log' = <<>>
                   /\ posted' = NoPost
              [] outcome = "throw" ->
                   \* background.js:855-861
                   /\ calls' = [calls EXCEPT ![c] = [call EXCEPT !.pc = "loading"]]
                   /\ log' = <<>>
                   /\ posted' = NoPost
                   /\ UNCHANGED <<cachedSchema, storage, lastOK>>
    /\ UNCHANGED <<varsX, pure, handling, admitted, panel>>

\* background.js:838-850: chrome.storage.local.set has settled
StoreDone ==
  \E c \in 1..MaxCalls :
    /\ calls[c].pc = "storing"
    /\ \E contact \in ContactsAt(calls[c], cachedSchema) :
         Resume(c, AfterLookup(calls[c], calls[c].ret, cachedSchema, lastOK, contact),
                <<>>)
    /\ UNCHANGED <<cachedSchema, storage, lastOK, varsX, pure, handling, admitted, panel>>

\* background.js:859-877: chrome.storage.local.get has settled
LoadDone ==
  \E c \in 1..MaxCalls, getOK \in BOOLEAN :
    /\ calls[c].pc = "loading"
    /\ LET key == calls[c].key
           storedSchema == storage[key]
           found == getOK /\ storedSchema.present
           cache == IF found
                    THEN Assigned(cachedSchema,
                                  Entry(key, storedSchema.fieldTypes, storedSchema.age))
                    ELSE cachedSchema
           result == IF found THEN Schema(storedSchema.fieldTypes) ELSE NullSchema
       IN /\ cachedSchema' = cache
          /\ \E contact \in ContactsAt(calls[c], cache) :
               Resume(c, AfterLookup(calls[c], result, cache, lastOK, contact),
                      <<FailedLookup(key, "exception", cachedSchema, storedSchema,
                                     result)>>)
    /\ UNCHANGED <<storage, lastOK, varsX, pure, handling, admitted, panel>>

\* background.js:149-200: the create request completes
PostDone ==
  \E c \in 1..MaxCalls :
    /\ calls[c].pc = "posting"
    /\ calls' = [calls EXCEPT ![c] = Idle]
    /\ log' = <<>>
    /\ posted' = NoPost
    /\ UNCHANGED <<cachedSchema, storage, lastOK, varsX, pure, handling, admitted, panel>>

Older(age) == Min(age + 1, TTL)

\* 150 s pass
Tock ==
  /\ cachedSchema' = IF cachedSchema.present
                     THEN [cachedSchema EXCEPT !.age = Older(@)] ELSE cachedSchema
  /\ storage' = [k \in Identities |->
                   IF storage[k].present THEN [storage[k] EXCEPT !.age = Older(@)]
                   ELSE storage[k]]
  /\ lastOK' = [k \in Identities |->
                  IF lastOK[k].has /\ lastOK[k].age + 1 < TTL
                  THEN [lastOK[k] EXCEPT !.age = @ + 1]
                  ELSE Never]
  /\ log' = <<>>
  /\ posted' = NoPost
  /\ UNCHANGED <<calls, varsX, pure, handling, admitted, panel>>

\* background.js:7-11: a new service; chrome.storage.local may hold the
\* copies an earlier one wrote
InitService ==
  /\ ExtractorAbsent
  /\ pure = NoCall
  /\ ServiceIdle
  /\ storage \in [Identities -> {NoEntry} \cup {Stored(RemoteTable(k), TTL) : k \in Identities}]
  /\ \A k \in Identities : storage[k].present => storage[k].fieldTypes = RemoteTable(k)

NextService ==
  \/ CallFetchAvailableFields
  \/ CallSaveToAirtable
  \/ Respond
  \/ StoreDone
  \/ LoadDone
  \/ PostDone
  \/ Tock

SpecService == InitService /\ [][NextService]_vars

\* fetchTableSchema under callers that look the schema up once: every
\* interleaving of lookups, without the requests that follow them
NextCache ==
  \/ CallFetchAvailableFields
  \/ Respond
  \/ StoreDone
  \/ LoadDone
  \/ Tock

SpecCache == InitService /\ [][NextCache]_vars

(***************************************************************************)
(* Claims about the schema cache and saveToAirtable.                       *)
(***************************************************************************)
\* C6, as stated: once a call for an identity has fetched successfully,
\* every later call for that identity made less than the TTL after that
\* fetch returns the cached map without a network request
C6_CachedWithinTTL ==
  \A i \in 1..Len(log) :
    (log[i].ev = "start" /\ log[i].since.has)
      => (~log[i].net /\ log[i].result = Schema(RemoteTable(log[i].key)))

\* C6, amended: once a call for an identity has fetched successfully, every
\* later call for that identity made less than the TTL after that fetch,
\* while the single in-memory entry is still the one that fetch stored,
\* returns the cached map without a network request
C6_CachedWhileKept ==
  \A i \in 1..Len(log) :
    (log[i].ev = "start" /\ log[i].since.has /\ log[i].kept)
      => (~log[i].net /\ log[i].result = Schema(RemoteTable(log[i].key)))

\* a call served from the cache one tick after the fetch that filled it
C6_Witness ==
  \E i \in 1..Len(log) :
    /\ log[i].ev = "start"
    /\ log[i].since.has
    /\ log[i].since.age > 0
    /\ log[i].kept
    /\ ~log[i].net

\* C7: when the fetch fails (non-OK status or exception) fetchTableSchema
\* returns the in-memory entry of the identity if there is one, else the
\* durable copy of the identity if there is one, else null
C7_FallbackOrder ==
  \A i \in 1..Len(log) :
    log[i].ev = "failed"
      => log[i].result = IF log[i].mem.known THEN log[i].mem ELSE log[i].dur

\* C8: when the schema saveToAirtable fetched is null, every mapped field
\* with a non-empty value is in the fields of the create request and
\* excludedFields is empty
C8_NullSchemaPassesAll ==
  (posted.sent /\ ~posted.schema1.known)
    => /\ \A f \in DOMAIN posted.mapped :
            ~IsEmptyValue(posted.mapped[f]) => f \in DOMAIN posted.fields
       /\ posted.excludedFields = <<>>

(***************************************************************************)
(* Claims about the pure methods of the background service.                *)
(***************************************************************************)
\* an item that is URL-shaped: a string starting with http:// or https://
UrlShaped(v) == IsStr(v) /\ (StartsWithHttpScheme(v.s) \/ StartsWithHttpsScheme(v.s))

\* the value is URL-shaped, or an array with a URL-shaped element, or a
\* comma-separated string with a URL-shaped item
ContainsUrl(v) ==
  \/ UrlShaped(v)
  \/ IsArr(v) /\ \E i \in 1..Len(v.a) : UrlShaped(v.a[i])
  \/ IsStr(v) /\ \E i \in 1..Len(Split(v.s)) : UrlShaped(Str(Trim(Split(v.s)[i])))

\* C9: for a linked-record field, transformByFieldType returns the exclude
\* result (null) whenever the value is URL-shaped or contains a URL-shaped
\* item, and never a substitute value
C9_UrlExcluded ==
  (/\ pure.op = "transformByFieldType"
   /\ pure.out.done
   /\ pure.fieldType = "multipleRecordLinks"
   /\ ContainsUrl(pure.value))
    => pure.out.value = Null

\* C10: with a schema, every non-empty field whose name is not a key of the
\* schema is excluded with the reason that the field does not exist, so the
\* names of the valid fields are keys of the schema
C10_UnknownExcluded ==
  (/\ pure.op = "validateAndFilterFields"
   /\ pure.out.done
   /\ pure.schema.known)
    => /\ \A n \in DOMAIN pure.fields :
            (~IsEmptyValue(pure.fields[n]) /\ n \notin DOMAIN pure.schema.types)
              => \E i \in 1..Len(pure.out.result.excludedFields) :
                   pure.out.result.excludedFields[i] =
                     [field |-> n, reason |-> DoesNotExist]
       /\ DOMAIN pure.out.result.validFields \subseteq DOMAIN pure.schema.types

\* C11: the output of mapContactDataToAirtable has no entry whose value is
\* empty: a key whose value is empty, or becomes empty when sanitized, is
\* absent from the output
C11_NoEmptyMapped ==
  (pure.op = "mapContactDataToAirtable" /\ pure.out.done)
    => \A f \in DOMAIN pure.out.fields : ~IsEmptyValue(pure.out.fields[f])


(***************************************************************************)
(* Claims about parseAirtableError.                                        *)
(***************************************************************************)
Classified == pure.op = "parseAirtableError" /\ pure.out.done
\* error is the Error of a response with this status
HasStatus(error, status) ==
  \/ error = HttpError(status)
  \/ \E tx \in StatusTexts : error = HttpErrorText(status, tx)
StructuredError(type) ==
  /\ pure.responseData.shape = "object"
  /\ pure.responseData.error.t = "error"
  /\ pure.responseData.error.type = type

\* C13: for a failure with status 401, 403, 404 or 429, whatever the body
\* of the response, parseAirtableError returns the fixed message of that
\* status: invalid credential, permission denied, resource not found, rate
\* limited.
C13_StatusMessageFixed ==
  Classified =>
    \A status \in {"401", "403", "404", "429"} :
      HasStatus(pure.error, status) =>
        /\ ~pure.out.result.threw
        /\ pure.out.result.message =
             CASE status = "401" -> InvalidToken
               [] status = "403" -> PermissionDenied
               [] status = "404" -> NotFound
               [] status = "429" -> RateLimited

\* C14: for a body of error type UNKNOWN_FIELD_NAME the result lists the
\* quoted name of the message in unknownFields and in fieldErrors, and every
\* element of unknownFields is a name taken from the message, never
\* undefined or empty, and is the field of an element of fieldErrors.
C14_UnknownFieldsExtracted ==
  (Classified /\ StructuredError("UNKNOWN_FIELD_NAME")) =>
    LET result == pure.out.result
        fieldName == QuotedName(OrEmpty(pure.responseData.error.message))
        inFieldErrors(name) ==
          /\ "fieldErrors" \in DOMAIN result
          /\ \E k \in 1..Len(result.fieldErrors) : result.fieldErrors[k].field = name
    IN /\ ~result.threw
       /\ fieldName # Absent =>
            /\ \E k \in 1..Len(result.unknownFields) : result.unknownFields[k] = fieldName
            /\ inFieldErrors(fieldName)
       /\ \A k \in 1..Len(result.unknownFields) :
            /\ result.unknownFields[k] # Absent
            /\ result.unknownFields[k] = fieldName
            /\ result.unknownFields[k].s # <<>>
            /\ inFieldErrors(result.unknownFields[k])

\* C15: for a body of error type INVALID_MULTIPLE_CHOICE_OPTIONS and a
\* status other than 401, 403, 404 and 429, the message of
\* BackgroundService.parseAirtableError is the fixed message about the
\* permission to create new select options.
C15_SelectOptionsMessage ==
  (/\ Classified
   /\ pure.build = "background.js"
   /\ StructuredError("INVALID_MULTIPLE_CHOICE_OPTIONS")
   /\ \E status \in Statuses \ {"401", "403", "404", "429"} :
         HasStatus(pure.error, status))
    => /\ ~pure.out.result.threw
       /\ pure.out.result.message =
            SelectOptionsPermission(OrEmpty(pure.responseData.error.message))

(***************************************************************************)
(* Claims about handleMessage and its operations.                          *)
(***************************************************************************)
Answered == handling.pc = "answered"

\* C12: when the create request of BackgroundService.saveToAirtable or
\* testFieldMappings fails, by a status that is not ok or by an exception
\* of fetch, the payload answered is {success: false} with the message,
\* the unknownFields and the fieldErrors parseAirtableError gives for that
\* fault.
C12_FaultClassified ==
  (/\ Answered
   /\ handling.build = "background.js"
   /\ handling.fault.failed)
    => LET errorInfo == parseAirtableError(handling.fault.error,
                                           handling.fault.responseData)
           payload == handling.reply.payload
       IN /\ payload.success = FALSE
          /\ payload.error = errorInfo.message
          /\ "unknownFields" \in DOMAIN payload
          /\ "fieldErrors" \in DOMAIN payload
          /\ payload.unknownFields = errorInfo.unknownFields
          /\ payload.fieldErrors = errorInfo.fieldErrors

\* C16: with apiToken, baseId or tableId missing from the configuration,
\* saveToAirtable, testAirtableConnection, testFieldMappings and
\* fetchAvailableFields answer {success: false, error} and no network
\* request (schema, create, delete, connection test) has been issued.
C16_IncompleteConfigNoRequest ==
  (/\ handling.pc # "none"
   /\ handling.action # "otherAction"
   /\ \E field \in ConfigFields : field \notin handling.config)
    => /\ handling.net = <<>>
       /\ Answered
       /\ handling.reply.payload.success = FALSE
       /\ "error" \in DOMAIN handling.reply.payload

\* saveToAirtable was asked with the table id missing and has answered
C16_Witness ==
  /\ Answered
  /\ handling.action = "saveToAirtable"
  /\ handling.build = "background.js"
  /\ handling.config = {"apiToken", "baseId"}
  /\ handling.net = <<>>

\* C19: when the delete request of testFieldMappings throws or is answered
\* with an error status, testFieldMappings still answers {success: true}.
C19_CleanupFailureIgnored ==
  (/\ Answered
   /\ handling.action = "testFieldMappings"
   /\ handling.cleanup \in {"throw", "errorStatus"})
    => handling.reply.payload.success = TRUE

\* the delete request of a mapping test has thrown and the test has answered
C19_Witness ==
  /\ Answered
  /\ handling.action = "testFieldMappings"
  /\ handling.cleanup = "throw"
  /\ handling.net = <<"create", "delete">>

(***************************************************************************)
(* Claims about the rate limiter.                                          *)
(***************************************************************************)

\* C17: whatever the calls of canMakeRequest, at times that do not
\* decrease, the calls answered true in a window of windowMs are at most
\* maxRequests, and a call answered false records no request: the list it
\* leaves is the list it found without its oldest entries.
C17_WindowBound ==
  /\ Len(admitted.ages) <= MaxRequests
  /\ (admitted.last.called /\ ~admitted.last.ok) =>
       \E expired \in 0..Len(admitted.last.found) :
         admitted.last.left =
           SubSeq(admitted.last.found, expired + 1, Len(admitted.last.found))

\* a call has just been answered false, maxRequests calls having been
\* answered true inside the window
C17_Witness ==
  /\ admitted.last.called
  /\ ~admitted.last.ok
  /\ Len(admitted.ages) = MaxRequests
  /\ requests = admitted.ages

Deferred(t) == t.kind = "deferred"
\* the requests that are still inside the window d ticks from now
LiveIn(d) == SelectSeq(requests, LAMBDA age : age + d < WindowTicks)
\* a timer of performInitialExtraction is due and this step runs it
Fires == Len(timers) = 1 /\ timers[1].d = 0 /\ timers' # timers

\* C18: a trigger of performInitialExtraction the limiter rejects is armed
\* again, after the time the oldest recorded request still has in the
\* window, which is more than none; with no other trigger, the limiter
\* admits it when that timer fires and extractProfileData is called; the
\* trigger is consumed in the end, so it is neither lost nor fired in a
\* loop.
C18_DeferredThenAdmitted ==
  /\ [][Fires =>
         IF Len(LiveIn(0)) >= MaxRequests
         THEN /\ timers' = <<Timer(WindowTicks - LiveIn(0)[1], "deferred")>>
              /\ timers'[1].d >= 1
              /\ requests' = LiveIn(0)
              /\ ~Deferred(timers[1])
         ELSE /\ timers' = <<>>
              /\ requests' = Append(LiveIn(0), 0)
              /\ \/ isExtracting' /\ Len(runs') = 1
                 \/ sent' # <<>>]_vars
  /\ [](\A i \in 1..Len(timers) :
          Deferred(timers[i]) => Len(LiveIn(timers[i].d)) < MaxRequests)
  /\ <>(timers = <<>>)

\* a trigger was rejected and its timer is pending
C18_Witness ==
  /\ Len(timers) = 1
  /\ Deferred(timers[1])
  /\ timers[1].d >= 1
  /\ Len(requests) = MaxRequests

(***************************************************************************)
(* Claims about the selector lists of the extractor.                       *)
(***************************************************************************)
\* the validation of a field: of the job title and the company the
\* validators of the source; of the location the test for connection
\* degree text (content.js:731-742); of the name that there is a text
\* (content.js:174)
PassesValidator(field, text) ==
  CASE field = "jobTitle" -> isValidJobTitle(text)
    [] field = "company" -> isValidCompanyName(WordsOf(text))
    [] field = "location" -> ~TooShort(text) /\ ~isConnectionDegreeText(text)
    [] field = "fullName" -> ~TooShort(text)
\* the text normalised as the field does it
Normalised(field, text) ==
  CASE field = "jobTitle" -> cleanJobTitle(text)
    [] field = "company" -> cleanCompanyName(text)
    [] OTHER -> text
\* the selectors whose node exists and whose text passes the validation
Qualifying(field, nodes) ==
  {i \in 1..Len(nodes) :
     nodes[i] # AbsentNode /\ PassesValidator(field, cleanTextOf(nodes[i]))}

\* C20: for each of the four fields and every document, the text taken is
\* that of the first selector of the list whose node exists and whose text
\* passes the validation of the field, a node whose text fails it being
\* passed over; it is empty when no selector qualifies.
C20_FirstValidLocator ==
  (pure.op = "extractField" /\ pure.out.done /\ (pure.field = "company" => pure.page.hasItem))
    => LET qualifying == Qualifying(pure.field, pure.page.nodes)
       IN IF qualifying = {}
          THEN pure.out.result.text = ""
          ELSE /\ pure.out.result.selector = LeastOf(qualifying)
               /\ pure.out.result.text =
                    Normalised(pure.field,
                               cleanTextOf(pure.page.nodes[LeastOf(qualifying)]))

(***************************************************************************)
(* Claims about the validators of the extractor.                           *)
(***************************************************************************)
\* the job title patterns of content.js:641-647 that match a text, told
\* from its first and its last word
TitlePatternsMatched(words) ==
  (IF \/ words[1] \in {"Senior", "senior"}
      \/ Len(words) >= 2 /\ words[1] = "Head" /\ words[2] = "of"
   THEN 1 ELSE 0)
  + (IF words[Len(words)] \in {"Engineer", "ENGINEER", "Designer"} THEN 1 ELSE 0)

\* C21: isValidCompanyName rejects a candidate as resembling a job title
\* exactly when at least 2 of the job title patterns match it, a candidate
\* rejected by an earlier rule aside; with one match or none this rule does
\* not reject: "Senior Software Engineer" is rejected and "Engineering
\* Corp" is accepted.
C21_JobTitleScoreThreshold ==
  (pure.op = "isValidCompanyName" /\ pure.out.done)
    => /\ pure.out.logged = "Strongly resembles a job title"
            => ~pure.out.result /\ TitlePatternsMatched(pure.text) >= 2
       /\ (TitlePatternsMatched(pure.text) >= 2
            /\ pure.out.logged \notin {"Text too short", "Looks like employment type",
                                       "Looks like date/duration"})
            => pure.out.logged = "Strongly resembles a job title"
       /\ pure.text = <<"Senior", "Software", "Engineer">> => ~pure.out.result
       /\ pure.text = <<"Engineering", "Corp">> => pure.out.result
       /\ pure.text \in {<<"Software", "Engineer">>, <<"Senior", "Corp">>,
                         <<"Head", "of", "Engineering">>} => pure.out.result

C21_Witness ==
  /\ pure.op = "isValidCompanyName"
  /\ pure.out.done
  /\ pure.text = <<"Software", "Engineer">>
  /\ TitlePatternsMatched(pure.text) = 1
  /\ pure.out.result

(***************************************************************************)
(* Claims about the fields of the create request.                          *)
(***************************************************************************)
\* C22: the profile whose name is "Jane Doe", whose job title is located as
\* "Product Manager · Full-time", that has no company and whose location is
\* located as "500+ connections", at "https://x/in/jane", gives with the
\* schema {Name, Job Title, Location}, all text, and the default mappings
\* exactly the valid fields Name: "Jane Doe" and Job Title: "Product
\* Manager": the location is extracted as the empty string.
C22_JaneDoeFields ==
  (/\ pure.op = "extractAndFilter"
   /\ pure.out.done
   /\ pure.schema = ProfileSchema
   /\ pure.doc.jobTitle = <<"Product Manager · Full-time">>
   /\ pure.doc.location = <<"500+ connections">>)
    => /\ pure.out.record.location = ""
       /\ pure.out.result.validFields =
            [n \in {"Name", "Job Title"} |->
               IF n = "Name" THEN JsString("Jane Doe") ELSE JsString("Product Manager")]

IsRecordPush(msg) == msg.action = "profileDataExtracted"
IsErrorPush(msg) == msg.action = "profileExtractionError"

\* C24: the step in which an extraction attempt ends pushes exactly one
\* notification, profileDataExtracted with the Record of the attempt when
\* it succeeded and profileExtractionError when it failed; a failed
\* attempt pushes no profileDataExtracted, nor does a trigger dropped
\* while an extraction is in progress.
C24_OneNotification ==
  /\ Len(sent) <= 1
  /\ \A i \in 1..Len(sent) :
       /\ IsRecordPush(sent[i]) \/ IsErrorPush(sent[i])
       /\ IsRecordPush(sent[i]) => ~isExtracting /\ sent[i].data = profileData

\* C30: an extractProfile request that arrives while an extraction is in
\* progress is answered in the same step with success and the profileData
\* stored before that extraction began; it starts no run, ends none and
\* leaves profileData alone.  profileData does not change while an extraction
\* is in progress, and an extraction that ends in its catch block leaves it
\* as it was.
C30_RequestDuringExtraction ==
  /\ [][(isExtracting /\ ExtractProfileRequest)
         => /\ response' = [success |-> TRUE, data |-> profileData,
                            to |-> "extractProfile"]
            /\ sent' = <<>>
            /\ UNCHANGED <<profileData, isExtracting, runs, timers>>]_vars
  /\ [][(isExtracting /\ isExtracting') => profileData' = profileData]_vars
  /\ [][(\E i \in DOMAIN sent' : IsErrorPush(sent'[i]))
         => profileData' = profileData]_vars

\* a request was answered with the Record of an earlier extraction while a
\* later one is waiting for the page
C30_Witness ==
  /\ isExtracting
  /\ runs # <<>>
  /\ response.to = "extractProfile"
  /\ response.success
  /\ response.data.set
  /\ response.data = profileData

\* a schema the call has obtained declares the field a linked record
DeclaredLinked(schema, fieldName) ==
  /\ schema.known
  /\ fieldName \in DOMAIN schema.types
  /\ schema.types[fieldName] = "multipleRecordLinks"

\* C25: a field that the schema declares as linked record is transmitted by
\* saveToAirtable only with a value that is a non-empty array of strings
\* none of which is URL-shaped; with any other value it is not in the
\* request.
C25_LinkedRecordTransmitted ==
  posted.sent
    => \A f \in DOMAIN posted.fields :
         (DeclaredLinked(posted.schema1, f) \/ DeclaredLinked(posted.schema2, f))
           => /\ IsArr(posted.fields[f])
              /\ Len(posted.fields[f].a) > 0
              /\ \A i \in 1..Len(posted.fields[f].a) :
                   /\ IsStr(posted.fields[f].a[i])
                   /\ ~UrlShaped(posted.fields[f].a[i])

\* C28: within one saveToAirtable call the schema given to the transformation
\* of the field values and the schema given to their validation are the
\* same, both null or the same map, whatever the two lookups return.
C28_OneSchemaPerSave == posted.sent => posted.schema1 = posted.schema2

\* the field is named in the excludedFields of the call with a reason
Diagnosed(request, fieldName) ==
  \E i \in DOMAIN request.excludedFields :
    /\ request.excludedFields[i].field = fieldName
    /\ request.excludedFields[i].reason # ""

\* C29: every mapped field with a non-empty value is in the fields that
\* saveToAirtable transmits or is listed with a reason in the excludedFields
\* it returns when the request succeeds.
C29_NoSilentDrop ==
  posted.sent
    => \A n \in DOMAIN posted.mapped :
         ~IsEmptyValue(posted.mapped[n])
           => n \in DOMAIN posted.fields \/ Diagnosed(posted, n)

\* C26: whatever the interleaving of the schema lookups, the in-memory
\* entry is absent or whole: its map is that of the table its key names,
\* and its age is that of the latest successful fetch for that key or that
\* of the durable copy of that key (or the entry is stale); every step
\* that changes the key or the map changes the entry to one made by one
\* fetch or one durable copy.
C26_EntryWhole ==
  /\ [](cachedSchema.present
        => /\ cachedSchema.fieldTypes = RemoteTable(cachedSchema.configKey)
           /\ \/ /\ lastOK[cachedSchema.configKey].has
                 /\ cachedSchema.age = lastOK[cachedSchema.configKey].age
              \/ /\ storage[cachedSchema.configKey].present
                 /\ cachedSchema.age = storage[cachedSchema.configKey].age
                 /\ cachedSchema.fieldTypes = storage[cachedSchema.configKey].fieldTypes
              \/ cachedSchema.age = TTL)
  /\ [][(cachedSchema'.present
          /\ (~cachedSchema.present
              \/ cachedSchema'.configKey # cachedSchema.configKey
              \/ cachedSchema'.fieldTypes # cachedSchema.fieldTypes))
         => \E k \in Identities :
              \/ cachedSchema' = Entry(k, RemoteTable(k), 0)
              \/ storage[k].present
                   /\ cachedSchema' = Entry(k, storage[k].fieldTypes, storage[k].age)]_vars

\* the entry of one identity has been written over by that of the other
\* while the call that fetched the first is still in flight
C26_Witness ==
  /\ cachedSchema.present
  /\ cachedSchema.configKey = "baseB:tblB"
  /\ \E c \in 1..MaxCalls : calls[c].pc = "storing" /\ calls[c].key = "baseA:tblA"

(***************************************************************************)
(* Claims about the side panel.                                            *)
(***************************************************************************)
\* the saveContact calls that have sent saveToAirtable and await its answer
SavesInProgress == {i \in 1..MaxSubmits : panel.submits[i] = "saving"}

\* C27: at most one saveToAirtable request of saveContact is in progress
\* at a time: a submit that arrives before the first save is over sends
\* no second request.
C27_OneSaveInProgress == panel.open => Cardinality(SavesInProgress) <= 1

=============================================================================
